---- MODULE Spec2Model ----
(***************************************************************************)
(* A model of the MCP protocol engine of zeroclaw: the JSON-RPC server     *)
(* dispatch (src/mcp/server.rs), the client's connection lifecycle and     *)
(* request path over the subprocess and HTTP transports                    *)
(* (src/mcp/client.rs), and the wire types they share (src/mcp/types.rs);  *)
(* and of three components beside it: the gateway's WebSocket chat upgrade *)
(* (src/gateway/ws.rs, src/auth/cloudflare_access.rs), the A2A task server *)
(* (src/agent/a2a/server.rs) and the audit logger (src/security/audit.rs). *)
(***************************************************************************)
EXTENDS Integers, Sequences, FiniteSets, TLC

VARIABLES
    \* ---- server (src/mcp/server.rs) ----
    srvTools,      \* McpServer.tools: the registry, a sequence of tool names
    srvStore,      \* McpServer.memory: the resource store, key -> content
    srvMsg,        \* the inbound message being handled (decoded JSON text)
    srvMode,       \* ServerConfig.transport_mode
    srvPhase,      \* "idle" | "received" | "responded" | "stopped" (run_stdio),
                   \* and "accepted" | "closed" (a connection of run_http)
    srvRead,       \* what was read so far, in order: "request" or "blank" lines
                   \* (run_stdio), "request" or "empty" connections (run_http)
    srvWritten,    \* the numbers in srvRead of the inputs whose response was written
    srvResp,       \* the response computed for srvMsg
    srvExec,       \* the execute calls made: tool index, arguments, what it returned
    srvStoreOps,   \* the store calls made while handling srvMsg, and whether each failed
    \* ---- client (src/mcp/client.rs) ----
    transport_mode,      \* McpServerConfig.transport_mode
    has_target,          \* config.command (Stdio) / config.url (Http) is Some
    state,               \* McpClient.state
    server_capabilities, \* McpClient.server_capabilities
    server_info,         \* McpClient.server_info
    request_sender,      \* McpClient.request_sender: the child whose channel it feeds
    stdio_process,       \* McpClient.stdio_process: the child it holds
    REQUEST_ID,          \* the static REQUEST_ID counter
    children,            \* every spawned child with its channel, pipes and tasks
    task,                \* the caller tasks: operation, position and locals
    opsStarted,          \* operations started so far
    \* ---- gateway (src/gateway/ws.rs) ----
    gwState,       \* AppState: cf_access_enabled, cf_access_public_key, cf_access_aud_tag
    gwReq,         \* the headers of the upgrade request being answered
    gwResp,        \* "none" | "upgrade" | "unauthorized"
    \* ---- A2A server (src/agent/a2a/server.rs) ----
    a2aConfig,     \* A2AServerConfig: require_authentication, api_keys
    a2aTasks,      \* A2AServerState.tasks: id -> TaskContext (status, history)
    a2aWs,         \* the Authorization header of the open WebSocket, if one is open
    a2aReq,        \* the last request handled
    a2aResp,       \* the response to it
    \* ---- audit logger (src/security/audit.rs) ----
    auditCfg,      \* AuditConfig: enabled, sign_events
    hash_chain,    \* AuditLogger.hash_chain
    auditFile,     \* the lines of the file at log_path, in file order
    auditRotated,  \* the lines of the rotated files, oldest first
    auditLogs      \* the calls of log: position and the event each holds

srvVars == <<srvTools, srvStore, srvMsg, srvPhase, srvResp, srvExec, srvStoreOps,
             srvMode, srvRead, srvWritten>>

cliVars ==
    <<transport_mode, has_target, state, server_capabilities, server_info,
      request_sender, stdio_process, REQUEST_ID, children, task, opsStarted>>

gwVars == <<gwState, gwReq, gwResp>>

a2aVars == <<a2aConfig, a2aTasks, a2aWs, a2aReq, a2aResp>>

auditVars == <<auditCfg, hash_chain, auditFile, auditRotated, auditLogs>>

\* The components beside the MCP client and server.
extVars == <<gwVars, a2aVars, auditVars>>

vars == <<srvTools, srvStore, srvMsg, srvPhase, srvResp, srvExec, srvStoreOps,
          srvMode, srvRead, srvWritten,
          transport_mode, has_target, state, server_capabilities, server_info,
          request_sender, stdio_process, REQUEST_ID, children, task, opsStarted,
          gwState, gwReq, gwResp,
          a2aConfig, a2aTasks, a2aWs, a2aReq, a2aResp,
          auditCfg, hash_chain, auditFile, auditRotated, auditLogs>>

----------------------------------------------------------------------------
\* Option<T>
NoneV == [some |-> FALSE]
Some(v) == [some |-> TRUE, v |-> v]

\* A JSON field that is absent from its object.
Absent == [absent |-> TRUE]
Present(v) == [absent |-> FALSE, v |-> v]

\* Character sequences stand for the strings whose prefix the code inspects.
MemoryPrefix == <<"m", "e", "m", "o", "r", "y", ":", "/", "/">>

\* strip_prefix replaced by trim_start_matches: the string itself comes back
\* when it does not start with p.
strip_prefix_Trim(s, p) ==
    IF Len(s) >= Len(p) /\ SubSeq(s, 1, Len(p)) = p
    THEN Some(SubSeq(s, Len(p) + 1, Len(s)))
    ELSE Some(s)

\* strip_prefix cutting one character short: the rest keeps the last
\* character of p.
strip_prefix_KeepLast(s, p) ==
    IF Len(s) >= Len(p) /\ SubSeq(s, 1, Len(p)) = p
    THEN Some(SubSeq(s, Len(p), Len(s)))
    ELSE NoneV

\* str::strip_prefix: Some(rest) when s starts with p, otherwise None.
strip_prefix(s, p) ==
    IF Len(s) >= Len(p) /\ SubSeq(s, 1, Len(p)) = p
    THEN Some(SubSeq(s, Len(p) + 1, Len(s)))
    ELSE NoneV

----------------------------------------------------------------------------
\* types.rs error_codes
PARSE_ERROR == -32700
INVALID_REQUEST == -32600
METHOD_NOT_FOUND == -32601
INVALID_PARAMS == -32602
INTERNAL_ERROR == -32603
SERVER_ERROR == -32000
TOOL_NOT_FOUND == -32001
RESOURCE_NOT_FOUND == -32002

\* McpError::new
McpError(code, message) == [code |-> code, message |-> message]

\* JsonRpcResponse::success with the error field filled in as well.
ResponseSuccess_WithError(id, result) ==
    [jsonrpc |-> "2.0", id |-> id, result |-> Some(result),
     error |-> Some(McpError(INTERNAL_ERROR, ""))]

\* JsonRpcResponse::error with a null id in place of the id it is given.
ResponseError_NullId(id, err) ==
    [jsonrpc |-> "2.0", id |-> [t |-> "null"], result |-> NoneV, error |-> Some(err)]

\* JsonRpcResponse::success / JsonRpcResponse::error
ResponseSuccess(id, result) ==
    [jsonrpc |-> "2.0", id |-> id, result |-> Some(result), error |-> NoneV]
ResponseError(id, err) ==
    [jsonrpc |-> "2.0", id |-> id, result |-> NoneV, error |-> Some(err)]

\* ToolsCallResult::error without its is_error flag.
ToolsCallResultError_Unflagged(content) ==
    [content |-> <<[type |-> "Text", text |-> content]>>, is_error |-> NoneV]

\* ToolsCallResult::text / ToolsCallResult::error
ToolsCallResultText(content) ==
    [content |-> <<[type |-> "Text", text |-> content]>>, is_error |-> NoneV]
ToolsCallResultError(content) ==
    [content |-> <<[type |-> "Text", text |-> content]>>, is_error |-> Some(TRUE)]

----------------------------------------------------------------------------
\* JSON values as the server's decoders see them.
JNull == [t |-> "null"]
JNum(n) == [t |-> "num", n |-> n]
JStr(s) == [t |-> "str", s |-> s]
\* An object carrying (or lacking) the fields the handlers decode.
JObj(name, arguments, uri) ==
    [t |-> "obj", name |-> name, arguments |-> arguments, uri |-> uri]

\* from_str::<JsonRpcRequest> with jsonrpc defaulted when it is missing or not
\* a string.
ParseRequest_Lenient(m) ==
    IF /\ m.wellformed
       /\ ~m.id.absent
       /\ ~m.method.absent /\ m.method.v.t = "str"
    THEN Some([jsonrpc |-> "2.0",
               id |-> m.id.v,
               method |-> m.method.v.s,
               params |-> IF m.params.absent \/ m.params.v = [t |-> "null"]
                          THEN NoneV ELSE Some(m.params.v)])
    ELSE NoneV

\* serde_json::from_str::<JsonRpcRequest>: jsonrpc and method are Strings and
\* id is a serde_json::Value, all three required; params is an Option, so an
\* absent or null params decodes to None.
ParseRequest(m) ==
    IF /\ m.wellformed
       /\ ~m.jsonrpc.absent /\ m.jsonrpc.v.t = "str"
       /\ ~m.id.absent
       /\ ~m.method.absent /\ m.method.v.t = "str"
    THEN Some([jsonrpc |-> m.jsonrpc.v.s,
               id |-> m.id.v,
               method |-> m.method.v.s,
               params |-> IF m.params.absent \/ m.params.v = JNull
                          THEN NoneV ELSE Some(m.params.v)])
    ELSE NoneV

\* from_value::<ToolsCallRequestParams> with arguments defaulted to null when
\* the field is missing.
DecodeToolsCallParams_OptionalArguments(p) ==
    IF /\ p.t = "obj"
       /\ ~p.name.absent /\ p.name.v.t = "str"
    THEN Some([name |-> p.name.v.s,
               arguments |-> IF p.arguments.absent THEN [t |-> "null"]
                             ELSE p.arguments.v])
    ELSE NoneV

\* serde_json::from_value::<ToolsCallRequestParams>: name is a String and
\* arguments a serde_json::Value, both required (neither is an Option nor has
\* a serde default); _meta is optional.
DecodeToolsCallParams(p) ==
    IF /\ p.t = "obj"
       /\ ~p.name.absent /\ p.name.v.t = "str"
       /\ ~p.arguments.absent
    THEN Some([name |-> p.name.v.s, arguments |-> p.arguments.v])
    ELSE NoneV

\* serde_json::from_value::<ResourcesReadRequestParams>: uri is a required String.
DecodeResourcesReadParams(p) ==
    IF p.t = "obj" /\ ~p.uri.absent /\ p.uri.v.t = "str"
    THEN Some([uri |-> p.uri.v.s])
    ELSE NoneV

\* find with the comparison inverted: the first tool whose name differs.
FindTool_Inverted(tools, name) ==
    IF \E i \in 1..Len(tools) : tools[i] # name
    THEN CHOOSE i \in 1..Len(tools) :
            /\ tools[i] # name
            /\ \A j \in 1..(i - 1) : tools[j] = name
    ELSE 0

\* tools.iter().find(|t| t.name() == tool_name): the first match, 0 for none.
FindTool(tools, name) ==
    IF \E i \in 1..Len(tools) : tools[i] = name
    THEN CHOOSE i \in 1..Len(tools) :
            /\ tools[i] = name
            /\ \A j \in 1..(i - 1) : tools[j] # name
    ELSE 0

\* What a handler does: the response it returns, the tools it executed and the
\* store operations it issued.
Handled(resp, exec, ops) == [resp |-> resp, exec |-> exec, ops |-> ops]

\* McpServer::handle_initialize
handle_initialize(id) ==
    Handled(ResponseSuccess(id,
                [protocol_version |-> "2024-11-05",
                 capabilities |-> [tools |-> Some([list_changed |-> Some(TRUE)]),
                                   resources |-> Some([subscribe |-> Some(FALSE),
                                                       list_changed |-> Some(FALSE)])],
                 server_info |-> [name |-> "zeroclaw", version |-> "CARGO_PKG_VERSION"]]),
            <<>>, <<>>)

\* handle_tools_list with the registry walked from its end.
handle_tools_list_Reversed(tools, id) ==
    Handled(ResponseSuccess(id,
                [tools |-> [i \in 1..Len(tools) |->
                               [name |-> tools[Len(tools) + 1 - i],
                                description |-> <<"description of ", tools[Len(tools) + 1 - i]>>,
                                input_schema |-> <<"schema of ", tools[Len(tools) + 1 - i]>>]],
                 next_cursor |-> NoneV]),
            <<>>, <<>>)

\* McpServer::handle_tools_list
handle_tools_list(tools, id) ==
    Handled(ResponseSuccess(id,
                [tools |-> [i \in 1..Len(tools) |->
                               [name |-> tools[i],
                                description |-> <<"description of ", tools[i]>>,
                                input_schema |-> <<"schema of ", tools[i]>>]],
                 next_cursor |-> NoneV]),
            <<>>, <<>>)

\* McpServer::handle_tools_call; outcome is what tool.execute returns when it
\* is invoked.
handle_tools_call(tools, params, id, outcome) ==
    IF ~params.some
    THEN Handled(ResponseError(id, McpError(INVALID_PARAMS, "Missing params")), <<>>, <<>>)
    ELSE LET call_params == DecodeToolsCallParams(params.v) IN
         IF ~call_params.some
         THEN Handled(ResponseError(id, McpError(INVALID_PARAMS, "Invalid params")),
                      <<>>, <<>>)
         ELSE LET tool_name == call_params.v.name
                  tool == FindTool(tools, tool_name)
                  ran == <<[tool |-> tool, arguments |-> call_params.v.arguments,
                            returned |-> outcome]>>
              IN  IF tool # 0
                  THEN CASE outcome.kind = "ok" /\ outcome.success ->
                              Handled(ResponseSuccess(id, ToolsCallResultText(outcome.output)),
                                      ran, <<>>)
                         [] outcome.kind = "ok" /\ ~outcome.success ->
                              Handled(ResponseSuccess(id,
                                          ToolsCallResultError(
                                              IF outcome.error.some THEN outcome.error.v
                                              ELSE "Unknown error")),
                                      ran, <<>>)
                         [] OTHER ->
                              Handled(ResponseError(id, McpError(INTERNAL_ERROR, outcome.message)),
                                      ran, <<>>)
                  ELSE Handled(ResponseError(id,
                                   McpError(TOOL_NOT_FOUND, <<"Tool not found: ", tool_name>>)),
                               <<>>, <<>>)

\* Memory::list over the bound store.
MemoryList(store) == DOMAIN store

\* Memory::get over the bound store.
MemoryGet(store, key) == IF key \in DOMAIN store THEN Some(store[key]) ELSE NoneV

\* McpServer::handle_resources_list; failed is whether memory.list returns Err.
handle_resources_list(store, id, failed) ==
    IF ~failed
    THEN Handled(ResponseSuccess(id,
                     [resources |-> {[uri |-> MemoryPrefix \o key, name |-> key]
                                        : key \in MemoryList(store)},
                      next_cursor |-> NoneV]),
                 <<>>, <<[op |-> "list", failed |-> failed]>>)
    ELSE Handled(ResponseError(id, McpError(INTERNAL_ERROR, "memory list failed")),
                 <<>>, <<[op |-> "list", failed |-> failed]>>)

\* McpServer::handle_resources_read; failed is whether memory.get returns Err
\* when it is called.
handle_resources_read(store, params, id, failed) ==
    IF ~params.some
    THEN Handled(ResponseError(id, McpError(INVALID_PARAMS, "Missing params")), <<>>, <<>>)
    ELSE LET read_params == DecodeResourcesReadParams(params.v) IN
         IF ~read_params.some
         THEN Handled(ResponseError(id, McpError(INVALID_PARAMS, "Invalid params")),
                      <<>>, <<>>)
         ELSE LET uri == read_params.v.uri
                  key == strip_prefix(uri, MemoryPrefix)
              IN  IF key.some
                  THEN LET got == <<[op |-> "get", key |-> key.v, failed |-> failed]>>
                           entry == MemoryGet(store, key.v)
                       IN  IF failed
                           THEN Handled(ResponseError(id,
                                            McpError(INTERNAL_ERROR, "memory get failed")),
                                        <<>>, got)
                           ELSE IF entry.some
                           THEN Handled(ResponseSuccess(id,
                                            [contents |-> <<[uri |-> uri,
                                                             mime_type |-> Some("text/plain"),
                                                             text |-> Some(entry.v),
                                                             blob |-> NoneV]>>]),
                                        <<>>, got)
                           ELSE Handled(ResponseError(id,
                                            McpError(RESOURCE_NOT_FOUND,
                                                     "Memory entry not found")),
                                        <<>>, got)
                  ELSE Handled(ResponseError(id,
                                   McpError(RESOURCE_NOT_FOUND, "Unknown resource URI scheme")),
                               <<>>, <<>>)

\* handle_message_static with the catch-all arm answering like a decode
\* failure.
handle_message_static_UnknownAsParse(tools, store, message, outcome, failed) ==
    LET request == ParseRequest(message) IN
    IF request.some
    THEN LET req == request.v
             id == req.id
         IN  CASE req.method = "initialize" -> handle_initialize(id)
               [] req.method = "tools/list" -> handle_tools_list(tools, id)
               [] req.method = "tools/call" ->
                      handle_tools_call(tools, req.params, id, outcome)
               [] req.method = "resources/list" -> handle_resources_list(store, id, failed)
               [] req.method = "resources/read" ->
                      handle_resources_read(store, req.params, id, failed)
               [] OTHER ->
                      Handled(ResponseError(id, McpError(PARSE_ERROR, "Invalid JSON")),
                              <<>>, <<>>)
    ELSE Handled(ResponseError(JNull, McpError(PARSE_ERROR, "Invalid JSON")), <<>>, <<>>)

\* McpServer::handle_message_static: decode, then route by method.
handle_message_static(tools, store, message, outcome, failed) ==
    LET request == ParseRequest(message) IN
    IF request.some
    THEN LET req == request.v
             id == req.id
         IN  CASE req.method = "initialize" -> handle_initialize(id)
               [] req.method = "tools/list" -> handle_tools_list(tools, id)
               [] req.method = "tools/call" ->
                      handle_tools_call(tools, req.params, id, outcome)
               [] req.method = "resources/list" -> handle_resources_list(store, id, failed)
               [] req.method = "resources/read" ->
                      handle_resources_read(store, req.params, id, failed)
               [] OTHER ->
                      Handled(ResponseError(id, McpError(METHOD_NOT_FOUND, "Method not found")),
                              <<>>, <<>>)
    ELSE Handled(ResponseError(JNull, McpError(PARSE_ERROR, "Invalid JSON")), <<>>, <<>>)


----------------------------------------------------------------------------
\* Bounds of the server's inputs.
MaxTools == 2
MaxInputs == 2

ToolNames == {"echo", "add"}
UnregisteredName == "missing"
ArgsHi == [t |-> "obj", text |-> "hi"]

Chars(k) == MemoryPrefix \o k
KeyA == <<"a">>
KeyB == <<"b">>
Uris ==
    { Chars(KeyA),                                  \* memory://a
      Chars(KeyB),                                  \* memory://b
      MemoryPrefix,                                 \* memory://
      <<"m", "e", "m", "o", "r", "y", ":", "/", "a">>,   \* memory:/a
      <<"M", "e", "m", "o", "r", "y", ":", "/", "/", "a">>, \* Memory://a
      <<"f", "i", "l", "e", ":", "/", "/", "a">>,   \* file://a
      <<>> }                                        \* the empty string

Registries == UNION {[1..n -> ToolNames] : n \in 0..MaxTools}
Stores == { <<>>, (KeyA :> "content of a"), (KeyA :> "content of a") @@ (KeyB :> "content of b") }

FieldValues(strings) == {Absent, Present(JNum(1))} \cup {Present(JStr(s)) : s \in strings}

ParamsValues ==
    {Absent, Present(JNull), Present(JNum(7))}
    \cup {Present(JObj(n, a, Absent)) :
            n \in FieldValues(ToolNames \cup {UnregisteredName}),
            a \in {Absent, Present(JNull), Present(ArgsHi)}}
    \cup {Present(JObj(Absent, Absent, u)) : u \in FieldValues(Uris)}

Methods ==
    {"initialize", "tools/list", "tools/call", "resources/list", "resources/read", "ping"}

Garbage ==
    [wellformed |-> FALSE, jsonrpc |-> Absent, id |-> Absent, method |-> Absent,
     params |-> Absent]

Messages ==
    {Garbage} \cup
    [wellformed : {TRUE},
     jsonrpc : {Absent, Present(JStr("2.0"))},
     id : {Absent, Present(JNull), Present(JNum(1)), Present(JStr("a"))},
     method : FieldValues(Methods),
     params : ParamsValues]

\* What tool.execute may return: Ok(ToolResult) or Err.
ExecOutcomes ==
    { [kind |-> "ok", success |-> TRUE, output |-> "hi", error |-> NoneV],
      [kind |-> "ok", success |-> FALSE, output |-> "", error |-> Some("boom")],
      [kind |-> "ok", success |-> FALSE, output |-> "", error |-> NoneV],
      [kind |-> "err", message |-> "tool failed"] }

\* The effect of a sequence of store operations on the store's contents:
\* list and get, the only operations the Memory interface is used for, read.
RECURSIVE ApplyStoreOps(_, _)
ApplyStoreOps(store, ops) ==
    IF ops = <<>> THEN store
    ELSE LET op == Head(ops)
             next == IF op.op \in {"list", "get"} THEN store
                     ELSE [k \in DOMAIN store \ {op.key} |-> store[k]]
         IN  ApplyStoreOps(next, Tail(ops))

\* No response computed yet.
NoResponse == ResponseError(JNull, McpError(0, ""))

\* run_stdio reading past the line whose response is not written yet.
ServerReceive_Pipelined ==
    /\ srvMode = "Stdio"
    /\ srvPhase \in {"idle", "responded"}
    /\ Len(srvRead) < MaxInputs
    /\ \E m \in Messages : srvMsg' = m
    /\ srvPhase' = "received"
    /\ srvRead' = Append(srvRead, "request")
    /\ UNCHANGED <<srvTools, srvStore, srvResp, srvExec, srvStoreOps, srvMode, srvWritten>>
    /\ UNCHANGED <<cliVars, extVars>>

\* run_stdio: lines.next_line() returns a line that is not blank.
ServerReceive ==
    /\ srvMode = "Stdio"
    /\ srvPhase = "idle"
    /\ Len(srvRead) < MaxInputs
    /\ \E m \in Messages : srvMsg' = m
    /\ srvPhase' = "received"
    /\ srvRead' = Append(srvRead, "request")
    /\ UNCHANGED <<srvTools, srvStore, srvResp, srvExec, srvStoreOps, srvMode, srvWritten>>
    /\ UNCHANGED <<cliVars, extVars>>

\* run_stdio: a line that is empty after trim is skipped.
StdioSkipBlank ==
    /\ srvMode = "Stdio"
    /\ srvPhase = "idle"
    /\ Len(srvRead) < MaxInputs
    /\ srvRead' = Append(srvRead, "blank")
    /\ UNCHANGED <<srvTools, srvStore, srvMsg, srvPhase, srvResp, srvExec, srvStoreOps,
                   srvMode, srvWritten>>
    /\ UNCHANGED <<cliVars, extVars>>

\* run_stdio: next_line returns Ok(None) or Err (standard input is closed),
\* and the loop ends.
StdioEnd ==
    /\ srvMode = "Stdio"
    /\ srvPhase = "idle"
    /\ srvPhase' = "stopped"
    /\ UNCHANGED <<srvTools, srvStore, srvMsg, srvResp, srvExec, srvStoreOps,
                   srvMode, srvRead, srvWritten>>
    /\ UNCHANGED <<cliVars, extVars>>

\* handle_message / handle_message_static: the message is dispatched and its
\* response computed.
ServerHandle ==
    /\ srvPhase = "received"
    /\ \E outcome \in ExecOutcomes, failed \in BOOLEAN :
          LET h == handle_message_static(srvTools, srvStore, srvMsg, outcome, failed) IN
          /\ srvResp' = h.resp
          /\ srvExec' = h.exec
          /\ srvStoreOps' = h.ops
          /\ srvStore' = ApplyStoreOps(srvStore, h.ops)
    /\ srvPhase' = "responded"
    /\ UNCHANGED <<srvTools, srvMsg, srvMode, srvRead, srvWritten>>
    /\ UNCHANGED <<cliVars, extVars>>

\* run_stdio: the response is serialized, written and flushed, and the loop
\* reads on; or a write fails and run_stdio returns the error.
ServerWrite ==
    /\ srvMode = "Stdio"
    /\ srvPhase = "responded"
    /\ \/ /\ srvPhase' = "idle"
          /\ srvWritten' = Append(srvWritten, Len(srvRead))
       \/ /\ srvPhase' = "stopped"
          /\ UNCHANGED srvWritten
    /\ srvMsg' = Garbage
    /\ srvResp' = NoResponse
    /\ srvExec' = <<>>
    /\ srvStoreOps' = <<>>
    /\ UNCHANGED <<srvTools, srvStore, srvMode, srvRead>>
    /\ UNCHANGED <<cliVars, extVars>>

\* run_http: listener.accept() returns a connection and a task is spawned for
\* it. The connections' tasks share only the registry and the store, which
\* they read; they are taken one after the other.
HttpAccept ==
    /\ srvMode = "Http"
    /\ srvPhase \in {"idle", "closed"}
    /\ Len(srvRead) < MaxInputs
    /\ srvPhase' = "accepted"
    /\ UNCHANGED <<srvTools, srvStore, srvMsg, srvResp, srvExec, srvStoreOps,
                   srvMode, srvRead, srvWritten>>
    /\ UNCHANGED <<cliVars, extVars>>

\* run_http, the connection's task: one stream.read. With an error or n = 0
\* the task ends and the stream is dropped; otherwise the bytes read are the
\* request.
HttpRead ==
    /\ srvMode = "Http"
    /\ srvPhase = "accepted"
    /\ \/ /\ srvPhase' = "closed"
          /\ srvRead' = Append(srvRead, "empty")
          /\ UNCHANGED srvMsg
       \/ /\ \E m \in Messages : srvMsg' = m
          /\ srvPhase' = "received"
          /\ srvRead' = Append(srvRead, "request")
    /\ UNCHANGED <<srvTools, srvStore, srvResp, srvExec, srvStoreOps, srvMode, srvWritten>>
    /\ UNCHANGED <<cliVars, extVars>>

\* run_http, the connection's task after handle_message_static:
\* let _ = stream.write_all(..) builds the write future and drops it without
\* awaiting it, so no byte is written; the task ends and the stream is
\* dropped, which closes the connection.
HttpDropWrite ==
    /\ srvMode = "Http"
    /\ srvPhase = "responded"
    /\ srvPhase' = "closed"
    /\ srvMsg' = Garbage
    /\ srvResp' = NoResponse
    /\ srvExec' = <<>>
    /\ srvStoreOps' = <<>>
    /\ UNCHANGED <<srvTools, srvStore, srvMode, srvRead, srvWritten>>
    /\ UNCHANGED <<cliVars, extVars>>

\* McpServer::run: run_stdio or run_http, by config.transport_mode.
ServerNext ==
    \/ ServerReceive
    \/ StdioSkipBlank
    \/ StdioEnd
    \/ ServerHandle
    \/ ServerWrite
    \/ HttpAccept
    \/ HttpRead
    \/ HttpDropWrite


----------------------------------------------------------------------------
\* The client: McpClient over its two transports.

\* Bounds of the client model.
MaxOps == 2
MaxSpawn == 1
MaxId == 2

\* McpClient::new
MaxRetries == 5
BaseDelayMs == 1000

\* The calls made on the client, each by its own caller task.
Tasks == 1..MaxOps
Operations ==
    {"connect", "disconnect", "reconnect",
     "list_tools", "call_tool", "list_resources", "read_resource"}

\* The JSON-RPC method each operation's request names.
MethodOf(op) ==
    CASE op = "list_tools" -> "tools/list"
      [] op = "call_tool" -> "tools/call"
      [] op = "list_resources" -> "resources/list"
      [] op = "read_resource" -> "resources/read"
      [] OTHER -> "initialize"

\* What an operation returns to its caller: Ok, or an anyhow error with its
\* text (why), the count formatted into it, and what it holds of a server's
\* error object.
NoResult == [kind |-> "none", why |-> "", count |-> 0, code |-> NoneV, message |-> NoneV]
Ok == [kind |-> "ok", why |-> "", count |-> 0, code |-> NoneV, message |-> NoneV]
Err(why) == [kind |-> "err", why |-> why, count |-> 0, code |-> NoneV, message |-> NoneV]

\* anyhow!("Failed to ...: {}", error.message): the text holds the server's
\* message; error.code and error.data are not used.
ErrFromServer(error) == [Err("operation failed: error.message") EXCEPT !.message = Some(error.message)]

\* The error object a peer answers with.
PeerError == [code |-> -32601, message |-> "Method not found"]

\* A caller task that runs no operation.
IdleTask ==
    [op |-> "none", pc |-> "idle", inReconnect |-> FALSE,
     retries |-> 0, delay |-> 0, attempts |-> 0, sleeps |-> <<>>,
     child |-> 0, reqId |-> 0, method |-> "", resp |-> NoneV,
     cres |-> NoResult, result |-> NoResult]

\* A child that has not been spawned.
NoChild ==
    [alive |-> FALSE, chan |-> <<>>, stdin |-> <<>>, writerDone |-> FALSE]

\* tokio::process::Command::spawn with piped stdio, the mpsc channel and the
\* reader and writer tasks connect_stdio starts for it.
FreshChild ==
    [alive |-> TRUE, chan |-> <<>>, stdin |-> <<>>, writerDone |-> FALSE]

Spawned == {g \in 1..MaxSpawn : children[g] # NoChild}

JsonRpcRequest(id, method) == [id |-> id, method |-> method]

\* The acknowledgement send_request builds in Stdio mode once the request is
\* queued, with next_id() called again for its id.
SentAck_FreshId(request) ==
    [id |-> REQUEST_ID, kind |-> "result", body |-> "status_sent", error |-> NoneV]

\* The acknowledgement send_request builds in Stdio mode once the request is
\* queued: JsonRpcResponse::success(request.id, {"status": "sent"}).
SentAck(request) ==
    [id |-> request.id, kind |-> "result", body |-> "status_sent", error |-> NoneV]

\* A peer's response to a request: it carries the request's id, and either a
\* result (shaped for the request's method, or not), an error object, or
\* neither.
PeerResponse(request, kind) ==
    [id |-> request.id,
     kind |-> IF kind = "bad_result" THEN "result" ELSE kind,
     body |-> CASE kind = "result" -> request.method
                [] kind = "error" -> "error"
                [] kind = "bad_result" -> "other"
                [] OTHER -> "empty",
     error |-> IF kind = "error" THEN Some(PeerError) ELSE NoneV]

\* serde_json::from_value::<T>(result) for the result type of `method`.
ResultDecodes(resp, method) == resp.body = method

\* connect: the state check without its early return.
AlreadyConnected_Never(s) == FALSE

\* connect: the state check that makes connect return at once.
AlreadyConnected(s) == s = "Connected"

\* reconnect: the loop condition with <= for <.
ReconnectContinues_OffByOne(retries) == retries <= MaxRetries

\* reconnect: while retries < self.max_retries
ReconnectContinues(retries) == retries < MaxRetries

\* reconnect: the delay halved after a failed attempt.
NextDelay_Halved(delay) == delay \div 2

\* reconnect: delay = delay * 2
NextDelay(delay) == delay * 2

\* McpClient::new, beside a server that has received nothing.
ClientInit ==
    /\ transport_mode \in {"Stdio", "Http"}
    /\ has_target \in BOOLEAN
    /\ state = "Disconnected"
    /\ server_capabilities = NoneV
    /\ server_info = NoneV
    /\ request_sender = NoneV
    /\ stdio_process = NoneV
    /\ REQUEST_ID = 1
    /\ children = [g \in 1..MaxSpawn |-> NoChild]
    /\ task = [t \in Tasks |-> IdleTask]
    /\ opsStarted = 0
    \* the server before any message
    /\ srvTools = <<>>
    /\ srvStore = <<>>
    /\ srvMsg = Garbage
    /\ srvPhase = "idle"
    /\ srvResp = NoResponse
    /\ srvExec = <<>>
    /\ srvStoreOps = <<>>
    /\ srvMode = "Stdio"
    /\ srvRead = <<>>
    /\ srvWritten = <<>>
    \* the other components before any use
    /\ gwState = [cf_access_enabled |-> FALSE, cf_access_public_key |-> NoneV,
                  cf_access_aud_tag |-> NoneV]
    /\ gwReq = NoneV
    /\ gwResp = "none"
    /\ a2aConfig = [require_authentication |-> TRUE, api_keys |-> {}]
    /\ a2aTasks = <<>>
    /\ a2aWs = NoneV
    /\ a2aReq = NoneV
    /\ a2aResp = NoneV
    /\ auditCfg = [enabled |-> FALSE, sign_events |-> FALSE]
    /\ hash_chain = NoneV
    /\ auditFile = <<>>
    /\ auditRotated = <<>>
    /\ auditLogs = <<>>

\* McpServer::new, beside a client that is never used.
ServerInit ==
    /\ srvTools \in Registries
    /\ srvStore \in Stores
    /\ srvMsg = Garbage
    /\ srvPhase = "idle"
    /\ srvResp = NoResponse
    /\ srvExec = <<>>
    /\ srvStoreOps = <<>>
    /\ srvMode \in {"Stdio", "Http"}
    /\ srvRead = <<>>
    /\ srvWritten = <<>>
    \* the client before any use
    /\ transport_mode = "Http"
    /\ has_target = TRUE
    /\ state = "Disconnected"
    /\ server_capabilities = NoneV
    /\ server_info = NoneV
    /\ request_sender = NoneV
    /\ stdio_process = NoneV
    /\ REQUEST_ID = 1
    /\ children = [g \in 1..MaxSpawn |-> NoChild]
    /\ task = [t \in Tasks |-> IdleTask]
    /\ opsStarted = 0
    \* the other components before any use
    /\ gwState = [cf_access_enabled |-> FALSE, cf_access_public_key |-> NoneV,
                  cf_access_aud_tag |-> NoneV]
    /\ gwReq = NoneV
    /\ gwResp = "none"
    /\ a2aConfig = [require_authentication |-> TRUE, api_keys |-> {}]
    /\ a2aTasks = <<>>
    /\ a2aWs = NoneV
    /\ a2aReq = NoneV
    /\ a2aResp = NoneV
    /\ auditCfg = [enabled |-> FALSE, sign_events |-> FALSE]
    /\ hash_chain = NoneV
    /\ auditFile = <<>>
    /\ auditRotated = <<>>
    /\ auditLogs = <<>>

----------------------------------------------------------------------------
\* The client's operations, one step per await on shared state.

Done(tk, res) == [tk EXCEPT !.pc = "done", !.result = res, !.inReconnect = FALSE]

\* What the caller of reconnect does with its result: reconnect itself
\* returns it; call_tool and read_resource go on to send when it is Ok and
\* return the error otherwise (reconnect().await?).
AfterReconnect(tk, res) ==
    IF tk.op \in {"call_tool", "read_resource"} /\ res.kind = "ok"
    THEN [tk EXCEPT !.pc = "q_next_id", !.inReconnect = FALSE]
    ELSE Done(tk, res)

\* reconnect: the loop test, then the call of connect (one more attempt) or
\* the terminal error after the loop.
ReconnectLoop(tk) ==
    IF ReconnectContinues(tk.retries)
    THEN [tk EXCEPT !.attempts = @ + 1, !.pc = "c_check"]
    ELSE AfterReconnect(tk,
             [Err("Failed to reconnect to MCP server after {} attempts")
                 EXCEPT !.count = MaxRetries])

\* reconnect: let mut retries = 0; let mut delay = self.base_delay_ms;
EnterReconnect(tk) ==
    ReconnectLoop([tk EXCEPT !.inReconnect = TRUE, !.retries = 0, !.delay = BaseDelayMs,
                             !.attempts = 0, !.sleeps = <<>>])

\* reconnect, after a failed attempt: sleep(delay); delay = delay * 2;
\* retries += 1; and the loop test again. The sleep touches no shared state,
\* so it is taken together with the step that ends the failed attempt.
ReconnectSleep(tk) ==
    ReconnectLoop([tk EXCEPT !.sleeps = Append(@, tk.delay),
                             !.delay = NextDelay(@),
                             !.retries = @ + 1,
                             !.child = 0, !.reqId = 0, !.method = "",
                             !.resp = NoneV, !.cres = NoResult])

\* What the caller of connect does with its result: reconnect returns Ok on
\* success and sleeps before the next attempt on failure.
AfterConnect(tk, res) ==
    IF tk.inReconnect
    THEN IF res.kind = "ok" THEN AfterReconnect(tk, Ok)
         ELSE ReconnectSleep(tk)
    ELSE Done(tk, res)

\* A failed send_request: initialize hands the error to connect, the other
\* operations return it.
SendFailed(tk, e) ==
    IF tk.method = "initialize"
    THEN [tk EXCEPT !.cres = e, !.pc = "c_result"]
    ELSE Done(tk, e)

\* The use of the response without initialize's check of response.error: an
\* error response is taken like one that carries no result.
GotResponse_IgnoreError(tk, r) ==
    LET tr == [tk EXCEPT !.resp = Some(r)] IN
    IF tk.method = "initialize"
    THEN CASE r.kind = "result" /\ ResultDecodes(r, "initialize") ->
                 [tr EXCEPT !.pc = "i_store"]
           [] r.kind = "result" ->
                 [tr EXCEPT !.cres = Err("Failed to parse initialize result"),
                            !.pc = "c_result"]
           [] OTHER -> [tr EXCEPT !.pc = "i_notify"]
    ELSE CASE r.kind = "error" -> Done(tr, ErrFromServer(r.error.v))
           [] r.kind = "result" /\ ResultDecodes(r, tk.method) -> Done(tr, Ok)
           [] r.kind = "result" -> Done(tr, Err("failed to decode the result"))
           [] tk.op \in {"list_tools", "list_resources"} -> Done(tr, Ok)
           [] OTHER -> Done(tr, Err("No result"))

\* What initialize, list_tools, call_tool, list_resources and read_resource do
\* with the response send_request returned.
GotResponse(tk, r) ==
    LET tr == [tk EXCEPT !.resp = Some(r)] IN
    IF tk.method = "initialize"
    THEN CASE r.kind = "error" ->
                 [tr EXCEPT !.cres = Err("MCP initialization failed"), !.pc = "c_result"]
           [] r.kind = "result" /\ ResultDecodes(r, "initialize") ->
                 [tr EXCEPT !.pc = "i_store"]
           [] r.kind = "result" ->
                 [tr EXCEPT !.cres = Err("Failed to parse initialize result"),
                            !.pc = "c_result"]
           [] OTHER -> [tr EXCEPT !.pc = "i_notify"]
    ELSE CASE r.kind = "error" -> Done(tr, ErrFromServer(r.error.v))
           [] r.kind = "result" /\ ResultDecodes(r, tk.method) -> Done(tr, Ok)
           [] r.kind = "result" -> Done(tr, Err("failed to decode the result"))
           [] tk.op \in {"list_tools", "list_resources"} -> Done(tr, Ok)
           [] OTHER -> Done(tr, Err("No result"))

\* A caller invokes one of the client's public operations; the calls are
\* numbered in the order they start.
StartOp(t) ==
    /\ task[t].pc = "idle"
    /\ opsStarted < MaxOps
    /\ \A u \in 1..(t - 1) : task[u].op # "none"
    /\ \E o \in Operations :
          task' = [task EXCEPT ![t] =
                     CASE o = "connect" -> [IdleTask EXCEPT !.op = o, !.pc = "c_check"]
                       [] o = "disconnect" -> [IdleTask EXCEPT !.op = o, !.pc = "d_state"]
                       [] o = "reconnect" -> EnterReconnect([IdleTask EXCEPT !.op = o])
                       [] o \in {"call_tool", "read_resource"} ->
                              [IdleTask EXCEPT !.op = o, !.pc = "q_is_connected"]
                       [] OTHER -> [IdleTask EXCEPT !.op = o, !.pc = "q_next_id"]]
    /\ opsStarted' = opsStarted + 1
    /\ UNCHANGED <<transport_mode, has_target, state, server_capabilities, server_info,
                   request_sender, stdio_process, REQUEST_ID, children>>
    /\ UNCHANGED <<srvVars, extVars>>

\* connect: the read of state and the early return when it is Connected.
ConnectCheck(t) ==
    /\ task[t].pc = "c_check"
    /\ task' = [task EXCEPT ![t] =
                  IF AlreadyConnected(state)
                  THEN AfterConnect(task[t], Ok)
                  ELSE [task[t] EXCEPT !.pc = "c_connecting"]]
    /\ UNCHANGED <<transport_mode, has_target, state, server_capabilities, server_info,
                   request_sender, stdio_process, REQUEST_ID, children, opsStarted>>
    /\ UNCHANGED <<srvVars, extVars>>

\* connect: state = Connecting, then connect_stdio / connect_http up to their
\* check of config.command / config.url.
ConnectSetConnecting(t) ==
    /\ task[t].pc = "c_connecting"
    /\ state' = "Connecting"
    /\ task' = [task EXCEPT ![t] =
                  IF ~has_target
                  THEN [task[t] EXCEPT !.cres = Err("transport requires command / URL"),
                                       !.pc = "c_result"]
                  ELSE IF transport_mode = "Stdio"
                  THEN [task[t] EXCEPT !.pc = "cs_spawn"]
                  ELSE [task[t] EXCEPT !.pc = "i_next_id"]]
    /\ UNCHANGED <<transport_mode, has_target, server_capabilities, server_info,
                   request_sender, stdio_process, REQUEST_ID, children, opsStarted>>
    /\ UNCHANGED <<srvVars, extVars>>

\* connect_stdio: spawn the child, create the channel, store its sender and
\* start the reader and writer tasks; or fail to spawn.
StdioSpawn(t) ==
    /\ task[t].pc = "cs_spawn"
    /\ \/ /\ task' = [task EXCEPT ![t] =
                        [task[t] EXCEPT !.cres = Err("Failed to spawn MCP server process"),
                                        !.pc = "c_result"]]
          /\ UNCHANGED <<request_sender, children>>
       \/ /\ Spawned # 1..MaxSpawn
          /\ LET g == CHOOSE g \in 1..MaxSpawn :
                         g \notin Spawned /\ \A h \in 1..(g - 1) : h \in Spawned
             IN  /\ children' = [children EXCEPT ![g] = FreshChild]
                 /\ request_sender' = Some(g)
                 /\ task' = [task EXCEPT ![t] =
                               [task[t] EXCEPT !.child = g, !.pc = "cs_process"]]
    /\ UNCHANGED <<transport_mode, has_target, state, server_capabilities, server_info,
                   stdio_process, REQUEST_ID, opsStarted>>
    /\ UNCHANGED <<srvVars, extVars>>

\* connect_stdio: *self.stdio_process.write().await = Some(child)
StdioStoreProcess(t) ==
    /\ task[t].pc = "cs_process"
    /\ stdio_process' = Some(task[t].child)
    /\ task' = [task EXCEPT ![t] = [task[t] EXCEPT !.pc = "i_next_id"]]
    /\ UNCHANGED <<transport_mode, has_target, state, server_capabilities, server_info,
                   request_sender, REQUEST_ID, children, opsStarted>>
    /\ UNCHANGED <<srvVars, extVars>>

\* next_id reading the counter without adding to it.
NextId_NoIncrement(t) ==
    /\ task[t].pc \in {"i_next_id", "q_next_id"}
    /\ REQUEST_ID <= MaxId
    /\ REQUEST_ID' = REQUEST_ID
    /\ task' = [task EXCEPT ![t] =
                  [task[t] EXCEPT !.reqId = REQUEST_ID,
                                  !.resp = NoneV,
                                  !.method = IF task[t].pc = "i_next_id"
                                             THEN "initialize" ELSE MethodOf(task[t].op),
                                  !.pc = IF task[t].pc = "i_next_id"
                                         THEN "i_send" ELSE "q_send"]]
    /\ UNCHANGED <<transport_mode, has_target, state, server_capabilities, server_info,
                   request_sender, stdio_process, children, opsStarted>>
    /\ UNCHANGED <<srvVars, extVars>>

\* next_id: REQUEST_ID.fetch_add(1), and the request built with it.
NextId(t) ==
    /\ task[t].pc \in {"i_next_id", "q_next_id"}
    /\ REQUEST_ID <= MaxId
    /\ REQUEST_ID' = REQUEST_ID + 1
    /\ task' = [task EXCEPT ![t] =
                  [task[t] EXCEPT !.reqId = REQUEST_ID,
                                  !.resp = NoneV,
                                  !.method = IF task[t].pc = "i_next_id"
                                             THEN "initialize" ELSE MethodOf(task[t].op),
                                  !.pc = IF task[t].pc = "i_next_id"
                                         THEN "i_send" ELSE "q_send"]]
    /\ UNCHANGED <<transport_mode, has_target, state, server_capabilities, server_info,
                   request_sender, stdio_process, children, opsStarted>>
    /\ UNCHANGED <<srvVars, extVars>>

\* send_request: in Stdio mode queue the request and return the
\* acknowledgement; in Http mode post the request.
SendRequest(t) ==
    /\ task[t].pc \in {"i_send", "q_send"}
    /\ LET tk == task[t]
           request == JsonRpcRequest(tk.reqId, tk.method)
       IN  IF transport_mode = "Stdio"
           THEN IF ~request_sender.some
                THEN /\ task' = [task EXCEPT ![t] = SendFailed(tk, Err("Not connected"))]
                     /\ UNCHANGED children
                ELSE IF children[request_sender.v].writerDone
                THEN /\ task' = [task EXCEPT ![t] = SendFailed(tk, Err("channel closed"))]
                     /\ UNCHANGED children
                ELSE /\ children' = [children EXCEPT ![request_sender.v].chan =
                                        Append(@, request)]
                     /\ task' = [task EXCEPT ![t] = GotResponse(tk, SentAck(request))]
           ELSE /\ task' = [task EXCEPT ![t] =
                              IF ~has_target
                              THEN SendFailed(tk, Err("HTTP URL not configured"))
                              ELSE [tk EXCEPT !.pc = IF tk.pc = "i_send"
                                                     THEN "i_recv" ELSE "q_recv"]]
                /\ UNCHANGED children
    /\ UNCHANGED <<transport_mode, has_target, state, server_capabilities, server_info,
                   request_sender, stdio_process, REQUEST_ID, opsStarted>>
    /\ UNCHANGED <<srvVars, extVars>>

\* send_request in Http mode: the POST fails, or its body does not parse, or
\* it parses to the peer's response.
HttpReceive(t) ==
    /\ task[t].pc \in {"i_recv", "q_recv"}
    /\ LET tk == task[t]
           request == JsonRpcRequest(tk.reqId, tk.method)
       IN  \E outcome \in {"transport_error", "unparsable",
                           "result", "error", "empty", "bad_result"} :
              task' = [task EXCEPT ![t] =
                         CASE outcome = "transport_error" ->
                                  SendFailed(tk, Err("error sending request"))
                           [] outcome = "unparsable" ->
                                  SendFailed(tk, Err("Failed to parse MCP response"))
                           [] OTHER -> GotResponse(tk, PeerResponse(request, outcome))]
    /\ UNCHANGED <<transport_mode, has_target, state, server_capabilities, server_info,
                   request_sender, stdio_process, REQUEST_ID, children, opsStarted>>
    /\ UNCHANGED <<srvVars, extVars>>

\* initialize: store the server's capabilities and info.
InitializeStore(t) ==
    /\ task[t].pc = "i_store"
    /\ server_capabilities' = Some("init_result.capabilities")
    /\ server_info' = Some("init_result.server_info")
    /\ task' = [task EXCEPT ![t] = [task[t] EXCEPT !.pc = "i_notify"]]
    /\ UNCHANGED <<transport_mode, has_target, state, request_sender, stdio_process,
                   REQUEST_ID, children, opsStarted>>
    /\ UNCHANGED <<srvVars, extVars>>

\* initialize: send_notification("initialized"), then return to connect.
InitializeNotify(t) ==
    /\ task[t].pc = "i_notify"
    /\ IF transport_mode = "Stdio" /\ request_sender.some
       THEN IF children[request_sender.v].writerDone
            THEN /\ task' = [task EXCEPT ![t] =
                               [task[t] EXCEPT !.cres = Err("channel closed"),
                                               !.pc = "c_result"]]
                 /\ UNCHANGED children
            ELSE /\ children' = [children EXCEPT ![request_sender.v].chan =
                                    Append(@, JsonRpcRequest(0, "initialized"))]
                 /\ task' = [task EXCEPT ![t] =
                               [task[t] EXCEPT !.cres = Ok, !.pc = "c_result"]]
       ELSE /\ task' = [task EXCEPT ![t] = [task[t] EXCEPT !.cres = Ok, !.pc = "c_result"]]
            /\ UNCHANGED children
    /\ UNCHANGED <<transport_mode, has_target, state, server_capabilities, server_info,
                   request_sender, stdio_process, REQUEST_ID, opsStarted>>
    /\ UNCHANGED <<srvVars, extVars>>

\* connect: state = Connected on Ok, Disconnected on Err, and the return.
ConnectResult(t) ==
    /\ task[t].pc = "c_result"
    /\ state' = IF task[t].cres.kind = "ok" THEN "Connected" ELSE "Disconnected"
    /\ task' = [task EXCEPT ![t] = AfterConnect(task[t], task[t].cres)]
    /\ UNCHANGED <<transport_mode, has_target, server_capabilities, server_info,
                   request_sender, stdio_process, REQUEST_ID, children, opsStarted>>
    /\ UNCHANGED <<srvVars, extVars>>

\* call_tool / read_resource: if !self.is_connected() { self.reconnect()? }
IsConnectedCheck(t) ==
    /\ task[t].pc = "q_is_connected"
    /\ task' = [task EXCEPT ![t] =
                  IF state = "Connected"
                  THEN [task[t] EXCEPT !.pc = "q_next_id"]
                  ELSE EnterReconnect(task[t])]
    /\ UNCHANGED <<transport_mode, has_target, state, server_capabilities, server_info,
                   request_sender, stdio_process, REQUEST_ID, children, opsStarted>>
    /\ UNCHANGED <<srvVars, extVars>>

\* disconnect: state = Disconnected
DisconnectState(t) ==
    /\ task[t].pc = "d_state"
    /\ state' = "Disconnected"
    /\ task' = [task EXCEPT ![t] = [task[t] EXCEPT !.pc = "d_caps"]]
    /\ UNCHANGED <<transport_mode, has_target, server_capabilities, server_info,
                   request_sender, stdio_process, REQUEST_ID, children, opsStarted>>
    /\ UNCHANGED <<srvVars, extVars>>

\* disconnect: server_capabilities = None; server_info = None
DisconnectClear(t) ==
    /\ task[t].pc = "d_caps"
    /\ server_capabilities' = NoneV
    /\ server_info' = NoneV
    /\ task' = [task EXCEPT ![t] = [task[t] EXCEPT !.pc = "d_sender"]]
    /\ UNCHANGED <<transport_mode, has_target, state, request_sender, stdio_process,
                   REQUEST_ID, children, opsStarted>>
    /\ UNCHANGED <<srvVars, extVars>>

\* disconnect: request_sender = None
DisconnectSender(t) ==
    /\ task[t].pc = "d_sender"
    /\ request_sender' = NoneV
    /\ task' = [task EXCEPT ![t] = [task[t] EXCEPT !.pc = "d_process"]]
    /\ UNCHANGED <<transport_mode, has_target, state, server_capabilities, server_info,
                   stdio_process, REQUEST_ID, children, opsStarted>>
    /\ UNCHANGED <<srvVars, extVars>>

\* disconnect: take the child out of stdio_process and kill it.
DisconnectProcess(t) ==
    /\ task[t].pc = "d_process"
    /\ stdio_process' = NoneV
    /\ children' = IF stdio_process.some
                   THEN [children EXCEPT ![stdio_process.v].alive = FALSE]
                   ELSE children
    /\ task' = [task EXCEPT ![t] = Done(task[t], Ok)]
    /\ UNCHANGED <<transport_mode, has_target, state, server_capabilities, server_info,
                   request_sender, REQUEST_ID, opsStarted>>
    /\ UNCHANGED <<srvVars, extVars>>

\* The sequence s without its i-th element.
RemoveAt(s, i) == SubSeq(s, 1, i - 1) \o SubSeq(s, i + 1, Len(s))

\* handle_response: a line whose result decodes as an InitializeResult
\* overwrites the stored capabilities and info; the line's id is not read.
StoresInitializeResult(line) == line.kind = "result" /\ ResultDecodes(line, "initialize")

\* The writer task taking the newest queued message instead of the oldest.
WriterWrite_NewestFirst(g) ==
    /\ g \in Spawned
    /\ ~children[g].writerDone
    /\ children[g].chan # <<>>
    /\ children' = [children EXCEPT ![g] =
                      IF children[g].alive
                      THEN [@ EXCEPT !.chan = SubSeq(@, 1, Len(@) - 1),
                                     !.stdin = Append(@, children[g].chan[Len(children[g].chan)])]
                      ELSE [@ EXCEPT !.writerDone = TRUE]]
    /\ UNCHANGED <<transport_mode, has_target, state, server_capabilities, server_info,
                   request_sender, stdio_process, REQUEST_ID, task, opsStarted>>
    /\ UNCHANGED <<srvVars, extVars>>

\* connect_stdio, writer task: take the next queued message and write it to
\* the child's stdin; a failed write ends the task and drops the receiver,
\* and what is still queued is never written.
WriterWrite(g) ==
    /\ g \in Spawned
    /\ ~children[g].writerDone
    /\ children[g].chan # <<>>
    /\ children' = [children EXCEPT ![g] =
                      IF children[g].alive
                      THEN [@ EXCEPT !.chan = Tail(@), !.stdin = Append(@, Head(children[g].chan))]
                      ELSE [@ EXCEPT !.writerDone = TRUE]]
    /\ UNCHANGED <<transport_mode, has_target, state, server_capabilities, server_info,
                   request_sender, stdio_process, REQUEST_ID, task, opsStarted>>
    /\ UNCHANGED <<srvVars, extVars>>

\* The child process exits (or is killed): its stdin closes. What it wrote
\* before stays in the pipe for the reader.
ChildExit(g) ==
    /\ g \in Spawned
    /\ children[g].alive
    /\ children' = [children EXCEPT ![g].alive = FALSE]
    /\ UNCHANGED <<transport_mode, has_target, state, server_capabilities, server_info,
                   request_sender, stdio_process, REQUEST_ID, task, opsStarted>>
    /\ UNCHANGED <<srvVars, extVars>>

\* connect_stdio, reader task: the child has answered one of the requests
\* written to it (in any order, with that request's id), and the reader task
\* reads the line and gives it to handle_response.
ReaderRead(g) ==
    /\ g \in Spawned
    /\ \E i \in 1..Len(children[g].stdin), kind \in {"result", "error"} :
          LET msg == children[g].stdin[i]
              line == PeerResponse(msg, kind)
          IN  /\ msg.id # 0
              /\ children' = [children EXCEPT ![g].stdin = RemoveAt(@, i)]
              /\ IF StoresInitializeResult(line)
                 THEN /\ server_capabilities' = Some("init_result.capabilities")
                      /\ server_info' = Some("init_result.server_info")
                 ELSE UNCHANGED <<server_capabilities, server_info>>
    /\ UNCHANGED <<transport_mode, has_target, state, request_sender, stdio_process,
                   REQUEST_ID, task, opsStarted>>
    /\ UNCHANGED <<srvVars, extVars>>

ClientNext ==
    \/ \E t \in Tasks : StartOp(t)
    \/ \E t \in Tasks : ConnectCheck(t)
    \/ \E t \in Tasks : ConnectSetConnecting(t)
    \/ \E t \in Tasks : StdioSpawn(t)
    \/ \E t \in Tasks : StdioStoreProcess(t)
    \/ \E t \in Tasks : NextId(t)
    \/ \E t \in Tasks : SendRequest(t)
    \/ \E t \in Tasks : HttpReceive(t)
    \/ \E t \in Tasks : InitializeStore(t)
    \/ \E t \in Tasks : InitializeNotify(t)
    \/ \E t \in Tasks : ConnectResult(t)
    \/ \E t \in Tasks : IsConnectedCheck(t)
    \/ \E t \in Tasks : DisconnectState(t)
    \/ \E t \in Tasks : DisconnectClear(t)
    \/ \E t \in Tasks : DisconnectSender(t)
    \/ \E t \in Tasks : DisconnectProcess(t)
    \/ \E g \in 1..MaxSpawn : WriterWrite(g)
    \/ \E g \in 1..MaxSpawn : ChildExit(g)
    \/ \E g \in 1..MaxSpawn : ReaderRead(g)

Spec == ClientInit /\ [][ClientNext]_vars

SpecServer == ServerInit /\ [][ServerNext]_vars

\* McpClient::new with the Http transport, beside a server that has received
\* nothing.
HttpClientInit ==
    /\ transport_mode = "Http"
    /\ has_target \in BOOLEAN
    /\ state = "Disconnected"
    /\ server_capabilities = NoneV
    /\ server_info = NoneV
    /\ request_sender = NoneV
    /\ stdio_process = NoneV
    /\ REQUEST_ID = 1
    /\ children = [g \in 1..MaxSpawn |-> NoChild]
    /\ task = [t \in Tasks |-> IdleTask]
    /\ opsStarted = 0
    \* the server before any message
    /\ srvTools = <<>>
    /\ srvStore = <<>>
    /\ srvMsg = Garbage
    /\ srvPhase = "idle"
    /\ srvResp = NoResponse
    /\ srvExec = <<>>
    /\ srvStoreOps = <<>>
    /\ srvMode = "Stdio"
    /\ srvRead = <<>>
    /\ srvWritten = <<>>
    \* the other components before any use
    /\ gwState = [cf_access_enabled |-> FALSE, cf_access_public_key |-> NoneV,
                  cf_access_aud_tag |-> NoneV]
    /\ gwReq = NoneV
    /\ gwResp = "none"
    /\ a2aConfig = [require_authentication |-> TRUE, api_keys |-> {}]
    /\ a2aTasks = <<>>
    /\ a2aWs = NoneV
    /\ a2aReq = NoneV
    /\ a2aResp = NoneV
    /\ auditCfg = [enabled |-> FALSE, sign_events |-> FALSE]
    /\ hash_chain = NoneV
    /\ auditFile = <<>>
    /\ auditRotated = <<>>
    /\ auditLogs = <<>>

\* The steps a caller's task takes by itself once it is scheduled: all of an
\* operation but the wait for the peer's answer to the POST.
ClientStep(t) ==
    \/ ConnectCheck(t)
    \/ ConnectSetConnecting(t)
    \/ NextId(t)
    \/ SendRequest(t)
    \/ InitializeStore(t)
    \/ InitializeNotify(t)
    \/ ConnectResult(t)
    \/ IsConnectedCheck(t)
    \/ DisconnectState(t)
    \/ DisconnectClear(t)
    \/ DisconnectSender(t)
    \/ DisconnectProcess(t)

\* The client over the Http transport.
HttpClientNext ==
    \/ \E t \in Tasks : StartOp(t)
    \/ \E t \in Tasks : ClientStep(t)
    \/ \E t \in Tasks : HttpReceive(t)

\* The Http client under the tokio scheduler: a task that can run does run.
\* Nothing makes the peer answer, and send_request sets no timeout on the
\* POST (reqwest::Client::new() has none), so HttpReceive is not fair.
SpecHttp ==
    HttpClientInit /\ [][HttpClientNext]_vars /\ \A t \in Tasks : WF_vars(ClientStep(t))

----------------------------------------------------------------------------
\* The gateway: the WebSocket chat upgrade behind Cloudflare Access.

\* The JWTs a request may carry, by what validate_cloudflare_token inspects:
\* the number of dot-separated parts, the header and its alg, the payload,
\* the exp, aud and iss claims, and the signature.
Jwts ==
    [text : {"empty", "two_parts", "three_parts"},
     header : {"bad_base64", "bad_json", "ok"},
     alg : {NoneV, Some("RS256"), Some("HS256")},
     payload : {"bad_json", "ok"},
     exp : {NoneV, Some("past"), Some("future")},
     aud : {NoneV,
            Some([kind |-> "Single", auds |-> <<"tag">>]),
            Some([kind |-> "Single", auds |-> <<"other">>]),
            Some([kind |-> "Multiple", auds |-> <<"other", "tag">>])},
     iss : {NoneV, Some("https://team.cloudflareaccess.com"), Some("https://evil.example")},
     signature : {"bad_base64", "wrong", "valid"}]

\* A token that passes every check, and the same token with a wrong signature.
GoodJwt ==
    [text |-> "three_parts", header |-> "ok", alg |-> Some("RS256"), payload |-> "ok",
     exp |-> Some("future"), aud |-> Some([kind |-> "Single", auds |-> <<"tag">>]),
     iss |-> Some("https://team.cloudflareaccess.com"), signature |-> "valid"]

ForgedJwt == [GoodJwt EXCEPT !.signature = "wrong"]

\* The request headers extract_cloudflare_jwt looks at: Cf-Access-Jwt-Assertion,
\* the CF_Access_JWT / CF_Authorization cookie and CF-Access-Client-Token. A
\* header value is its token and whether HeaderValue::to_str accepts it
\* (visible ASCII only).
WsHeaders ==
    [assertion : {NoneV} \cup {Some(v) : v \in [ascii : BOOLEAN, jwt : {GoodJwt, ForgedJwt}]},
     cookie : {NoneV, Some(GoodJwt), Some(ForgedJwt)},
     client_token : {NoneV, Some([ascii |-> TRUE, jwt |-> GoodJwt]),
                     Some([ascii |-> TRUE, jwt |-> ForgedJwt])}]
    \cup
    [assertion : {Some([ascii |-> TRUE, jwt |-> j]) : j \in Jwts},
     cookie : {NoneV},
     client_token : {NoneV}]

\* value.to_str().ok().map(..)
HeaderToStr(v) == IF v.ascii THEN Some(v.jwt) ELSE NoneV

\* extract_cloudflare_jwt: the assertion header, then the cookie, then the
\* client-token header; the first one present decides.
extract_cloudflare_jwt(headers) ==
    IF headers.assertion.some THEN HeaderToStr(headers.assertion.v)
    ELSE IF headers.cookie.some THEN Some(headers.cookie.v)
    ELSE IF headers.client_token.some THEN HeaderToStr(headers.client_token.v)
    ELSE NoneV

\* validate_cloudflare_token: the audience check.
aud_ok(aud, expected_aud) == \E i \in 1..Len(aud.auds) : aud.auds[i] = expected_aud

\* validate_cloudflare_token: the issuer contains ".cloudflareaccess.com".
iss_ok(iss) == iss = "https://team.cloudflareaccess.com"

\* validate_cloudflare_token: "Authenticated", "NotPresent" or "Invalid".
\* The signature is valid or wrong with respect to the configured key.
validate_cloudflare_token(jwt, public_key, aud_tag) ==
    CASE jwt.text = "empty" -> "NotPresent"
      [] jwt.text # "three_parts" -> "Invalid"
      [] jwt.header # "ok" -> "Invalid"
      [] jwt.alg.some /\ jwt.alg.v # "RS256" -> "Invalid"
      [] jwt.payload # "ok" -> "Invalid"
      [] jwt.exp.some /\ jwt.exp.v = "past" -> "Invalid"
      [] aud_tag.some /\ ~jwt.aud.some -> "Invalid"
      [] aud_tag.some /\ ~aud_ok(jwt.aud.v, aud_tag.v) -> "Invalid"
      [] jwt.iss.some /\ ~iss_ok(jwt.iss.v) -> "Invalid"
      [] jwt.signature # "valid" -> "Invalid"
      [] OTHER -> "Authenticated"

\* is_authenticated (gateway/ws.rs)
is_authenticated(st, headers) ==
    IF ~st.cf_access_enabled THEN TRUE
    ELSE IF st.cf_access_public_key.some
    THEN LET jwt == extract_cloudflare_jwt(headers) IN
         /\ jwt.some
         /\ validate_cloudflare_token(jwt.v, st.cf_access_public_key.v,
                                      st.cf_access_aud_tag) = "Authenticated"
    ELSE TRUE

\* handle_ws_chat: reject with 401, or go on to the upgrade.
handle_ws_chat(st, headers) ==
    IF ~is_authenticated(st, headers) THEN "unauthorized" ELSE "upgrade"

\* The gateway's state as configured.
GatewayInit ==
    /\ gwState \in [cf_access_enabled : BOOLEAN,
                    cf_access_public_key : {NoneV, Some("pem")},
                    cf_access_aud_tag : {NoneV, Some("tag")}]
    /\ gwReq = NoneV
    /\ gwResp = "none"
    \* the MCP server before any message
    /\ srvTools = <<>>
    /\ srvStore = <<>>
    /\ srvMsg = Garbage
    /\ srvPhase = "idle"
    /\ srvResp = NoResponse
    /\ srvExec = <<>>
    /\ srvStoreOps = <<>>
    /\ srvMode = "Stdio"
    /\ srvRead = <<>>
    /\ srvWritten = <<>>
    \* the MCP client before any use
    /\ transport_mode = "Http"
    /\ has_target = TRUE
    /\ state = "Disconnected"
    /\ server_capabilities = NoneV
    /\ server_info = NoneV
    /\ request_sender = NoneV
    /\ stdio_process = NoneV
    /\ REQUEST_ID = 1
    /\ children = [g \in 1..MaxSpawn |-> NoChild]
    /\ task = [t \in Tasks |-> IdleTask]
    /\ opsStarted = 0
    \* the A2A server before any request
    /\ a2aConfig = [require_authentication |-> TRUE, api_keys |-> {}]
    /\ a2aTasks = <<>>
    /\ a2aWs = NoneV
    /\ a2aReq = NoneV
    /\ a2aResp = NoneV
    \* the audit logger before any call
    /\ auditCfg = [enabled |-> FALSE, sign_events |-> FALSE]
    /\ hash_chain = NoneV
    /\ auditFile = <<>>
    /\ auditRotated = <<>>
    /\ auditLogs = <<>>

\* A client sends GET /ws/chat with its headers.
WsRequest ==
    /\ gwReq = NoneV
    /\ \E headers \in WsHeaders : gwReq' = Some(headers)
    /\ UNCHANGED <<gwState, gwResp, srvVars, cliVars, a2aVars, auditVars>>

\* handle_ws_chat: the upgrade request is answered.
WsChat ==
    /\ gwReq.some /\ gwResp = "none"
    /\ gwResp' = handle_ws_chat(gwState, gwReq.v)
    /\ UNCHANGED <<gwState, gwReq, srvVars, cliVars, a2aVars, auditVars>>

\* The exchange is over: the 401 was sent, or handle_socket's loop ended with
\* the socket's close.
WsClose ==
    /\ gwResp # "none"
    /\ gwReq' = NoneV
    /\ gwResp' = "none"
    /\ UNCHANGED <<gwState, srvVars, cliVars, a2aVars, auditVars>>

GatewayNext == WsRequest \/ WsChat \/ WsClose

SpecGateway == GatewayInit /\ [][GatewayNext]_vars

----------------------------------------------------------------------------
\* The A2A task server (agent/a2a/server.rs).

\* agent/a2a/types.rs error_codes beside the JSON-RPC ones
TASK_NOT_FOUND == -32001
TASK_CANCEL_FAILED == -32002
AUTHENTICATION_FAILED == -32003

\* The number of ids Uuid::new_v4 hands out.
MaxUuids == 1

BearerPrefix == <<"B", "e", "a", "r", "e", "r", " ">>
ApiKeyPrefix == <<"A", "p", "i", "K", "e", "y", " ">>
KeyGood == <<"k", "1">>

\* Task ids a client names itself, and the ids Uuid::new_v4 generates.
Uuids == {<<"u1", "u2", "u3">>[i] : i \in 1..MaxUuids}
A2aTaskIds == {"t1"} \cup Uuids

\* The Authorization header of a request: absent, or a value that is visible
\* ASCII (to_str succeeds) or not.
A2aAuthorizations ==
    {NoneV}
        \cup {Some([ascii |-> TRUE, text |-> t]) :
                t \in {BearerPrefix \o KeyGood, BearerPrefix \o <<"k", "2">>,
                       ApiKeyPrefix \o KeyGood, ApiKeyPrefix \o <<"k", "2">>,
                       KeyGood, BearerPrefix}}
        \cup {Some([ascii |-> FALSE, text |-> BearerPrefix \o KeyGood])}

A2aMethods == {"tasks/submit", "tasks/get", "tasks/cancel", "agent/card", "other"}

\* params: absent, or an object with an optional string "id" and a "message"
\* that deserializes as an AgentMessage or does not.
A2aParams ==
    {NoneV} \cup {Some([id |-> i, message |-> m]) :
                    i \in {NoneV} \cup {Some(t) : t \in A2aTaskIds},
                    m \in BOOLEAN}

\* A body: text that is not an A2ARequest, or an A2ARequest.
A2aBodies ==
    {[json |-> FALSE]}
        \cup {[json |-> TRUE, id |-> 1, method |-> m, params |-> p] :
                m \in A2aMethods, p \in A2aParams}

\* The requests of the routes of A2AServer::run; a WebSocket message carries
\* the headers its socket was opened with.
A2aHttpRequests ==
    {[route |-> "rpc", authorization |-> a, path |-> "t1", body |-> b] :
        a \in A2aAuthorizations, b \in A2aBodies}
    \cup {[route |-> r, authorization |-> a, path |-> p, body |-> [json |-> FALSE]] :
            r \in {"task_get", "task_cancel"}, a \in A2aAuthorizations,
            p \in A2aTaskIds}
    \cup {[route |-> r, authorization |-> a, path |-> "t1", body |-> [json |-> FALSE]] :
            r \in {"agent_card", "ws_upgrade"}, a \in A2aAuthorizations}

A2aWsMessages(authorization) ==
    {[route |-> "ws_message", authorization |-> authorization, path |-> "t1",
      body |-> b] : b \in A2aBodies}

\* TaskStatus values that end a task.
TerminalStatuses == {"Completed", "Failed", "Canceled"}

StateTransition(from, to) == [from |-> from, to |-> to]

\* TaskContext::new
TaskContext_new(id) ==
    [id |-> id, status |-> "Submitted",
     history |-> <<StateTransition("Submitted", "Submitted")>>]

\* TaskContext::update_status
update_status(t, status) ==
    [t EXCEPT !.history = Append(@, StateTransition(t.status, status)),
              !.status = status]

\* TaskStatusMessage::new(..).with_history(..)
TaskStatusMessage(t) ==
    [kind |-> "status", id |-> t.id, status |-> t.status, history |-> t.history]

\* HashMap::insert
MapInsert(map, k, v) == [x \in DOMAIN map \cup {k} |-> IF x = k THEN v ELSE map[x]]

\* A reply: the HTTP status (0 on a WebSocket), the JSON-RPC error code (0 for
\* a success) and the result.
A2aReply(http, code, result) == [http |-> http, code |-> code, result |-> result]

\* What a method handler returns: Ok(result) or Err(code), and the tasks map
\* it leaves behind.
MethodOk(result, tasks) == [code |-> 0, result |-> Some(result), tasks |-> tasks]
MethodErr(code, tasks) == [code |-> code, result |-> NoneV, tasks |-> tasks]

\* authenticate: TRUE for Ok(()).
authenticate(config, authorization) ==
    LET auth_header ==
            IF authorization.some /\ authorization.v.ascii
            THEN authorization.v.text ELSE <<>>
        bearer == strip_prefix(auth_header, BearerPrefix)
        apikey == strip_prefix(auth_header, ApiKeyPrefix)
    IN  IF ~config.require_authentication THEN TRUE
        ELSE IF bearer.some THEN bearer.v \in config.api_keys
        ELSE IF apikey.some THEN apikey.v \in config.api_keys
        ELSE FALSE

\* handle_task_submit; uuid is the id Uuid::new_v4 returns.
handle_task_submit(tasks, request, uuid) ==
    IF ~request.params.some THEN MethodErr(INVALID_PARAMS, tasks)
    ELSE LET params == request.params.v
             task_id == IF params.id.some THEN params.id.v ELSE uuid
         IN  IF ~params.message THEN MethodErr(INVALID_PARAMS, tasks)
             ELSE MethodOk([kind |-> "submit", id |-> task_id, status |-> "submitted"],
                           MapInsert(tasks, task_id, TaskContext_new(task_id)))

\* handle_task_get_rpc
handle_task_get_rpc(tasks, request) ==
    IF ~request.params.some THEN MethodErr(INVALID_PARAMS, tasks)
    ELSE IF ~request.params.v.id.some THEN MethodErr(INVALID_PARAMS, tasks)
    ELSE LET task_id == request.params.v.id.v
         IN  IF task_id \notin DOMAIN tasks THEN MethodErr(TASK_NOT_FOUND, tasks)
             ELSE MethodOk(TaskStatusMessage(tasks[task_id]), tasks)

\* handle_task_cancel_rpc
handle_task_cancel_rpc(tasks, request) ==
    IF ~request.params.some THEN MethodErr(INVALID_PARAMS, tasks)
    ELSE IF ~request.params.v.id.some THEN MethodErr(INVALID_PARAMS, tasks)
    ELSE LET task_id == request.params.v.id.v
         IN  IF task_id \notin DOMAIN tasks THEN MethodErr(TASK_NOT_FOUND, tasks)
             ELSE IF tasks[task_id].status \in TerminalStatuses
             THEN MethodErr(TASK_CANCEL_FAILED, tasks)
             ELSE LET t == update_status(tasks[task_id], "Canceled")
                  IN  MethodOk(TaskStatusMessage(t), [tasks EXCEPT ![task_id] = t])

\* handle_agent_card_rpc
handle_agent_card_rpc(tasks) == MethodOk([kind |-> "card"], tasks)

\* handle_method
handle_method(tasks, request, uuid) ==
    CASE request.method = "tasks/submit" -> handle_task_submit(tasks, request, uuid)
      [] request.method = "tasks/get" -> handle_task_get_rpc(tasks, request)
      [] request.method = "tasks/cancel" -> handle_task_cancel_rpc(tasks, request)
      [] request.method = "agent/card" -> handle_agent_card_rpc(tasks)
      [] OTHER -> MethodErr(METHOD_NOT_FOUND, tasks)

\* Whether handling the request draws an id from Uuid::new_v4.
NeedsUuid(req) ==
    /\ req.body.json
    /\ req.body.method = "tasks/submit"
    /\ req.body.params.some
    /\ ~req.body.params.v.id.some

A2AInit ==
    /\ a2aConfig \in [require_authentication : BOOLEAN, api_keys : {{}, {KeyGood}}]
    \* A2AServer::run: tasks start as an empty HashMap
    /\ a2aTasks = <<>>
    /\ a2aWs = NoneV
    /\ a2aReq = NoneV
    /\ a2aResp = NoneV
    \* the MCP server before any message
    /\ srvTools = <<>>
    /\ srvStore = <<>>
    /\ srvMsg = Garbage
    /\ srvPhase = "idle"
    /\ srvResp = NoResponse
    /\ srvExec = <<>>
    /\ srvStoreOps = <<>>
    /\ srvMode = "Stdio"
    /\ srvRead = <<>>
    /\ srvWritten = <<>>
    \* the MCP client before any use
    /\ transport_mode = "Http"
    /\ has_target = TRUE
    /\ state = "Disconnected"
    /\ server_capabilities = NoneV
    /\ server_info = NoneV
    /\ request_sender = NoneV
    /\ stdio_process = NoneV
    /\ REQUEST_ID = 1
    /\ children = [g \in 1..MaxSpawn |-> NoChild]
    /\ task = [t \in Tasks |-> IdleTask]
    /\ opsStarted = 0
    \* the gateway before any request
    /\ gwState = [cf_access_enabled |-> FALSE, cf_access_public_key |-> NoneV,
                  cf_access_aud_tag |-> NoneV]
    /\ gwReq = NoneV
    /\ gwResp = "none"
    \* the audit logger before any call
    /\ auditCfg = [enabled |-> FALSE, sign_events |-> FALSE]
    /\ hash_chain = NoneV
    /\ auditFile = <<>>
    /\ auditRotated = <<>>
    /\ auditLogs = <<>>

\* A request arrives on one of the routes, or a text message on the open
\* WebSocket.
A2aReceive ==
    /\ a2aReq = NoneV
    /\ \E req \in A2aHttpRequests
                    \cup (IF a2aWs.some THEN A2aWsMessages(a2aWs.v) ELSE {}) :
          /\ NeedsUuid(req) => Uuids \ DOMAIN a2aTasks # {}
          /\ req.route = "ws_upgrade" => ~a2aWs.some
          /\ a2aReq' = Some(req)
    /\ UNCHANGED <<a2aConfig, a2aTasks, a2aWs, a2aResp, srvVars, cliVars, gwVars,
                   auditVars>>

A2aHandling(route) == a2aReq.some /\ ~a2aResp.some /\ a2aReq.v.route = route

\* handle_agent_card
A2aAgentCard ==
    /\ A2aHandling("agent_card")
    /\ a2aResp' = Some(A2aReply(200, 0, Some([kind |-> "card"])))
    /\ UNCHANGED <<a2aConfig, a2aTasks, a2aWs, a2aReq, srvVars, cliVars, gwVars,
                   auditVars>>

\* handle_a2a_rpc
A2aRpc ==
    /\ A2aHandling("rpc")
    /\ LET req == a2aReq.v
       IN  IF ~authenticate(a2aConfig, req.authorization)
           THEN /\ a2aResp' = Some(A2aReply(200, AUTHENTICATION_FAILED, NoneV))
                /\ UNCHANGED a2aTasks
           ELSE IF ~req.body.json
           THEN /\ a2aResp' = Some(A2aReply(400, PARSE_ERROR, NoneV))
                /\ UNCHANGED a2aTasks
           ELSE \E uuid \in IF NeedsUuid(req) THEN Uuids \ DOMAIN a2aTasks ELSE Uuids :
                  LET r == handle_method(a2aTasks, req.body, uuid)
                  IN  /\ a2aResp' = Some(A2aReply(200, r.code, r.result))
                      /\ a2aTasks' = r.tasks
    /\ UNCHANGED <<a2aConfig, a2aWs, a2aReq, srvVars, cliVars, gwVars, auditVars>>

\* handle_task_get
A2aTaskGet ==
    /\ A2aHandling("task_get")
    /\ LET task_id == a2aReq.v.path
       IN  a2aResp' =
             IF task_id \in DOMAIN a2aTasks
             THEN Some(A2aReply(200, 0, Some(TaskStatusMessage(a2aTasks[task_id]))))
             ELSE Some(A2aReply(404, TASK_NOT_FOUND, NoneV))
    /\ UNCHANGED <<a2aConfig, a2aTasks, a2aWs, a2aReq, srvVars, cliVars, gwVars,
                   auditVars>>

\* handle_task_cancel
A2aTaskCancel ==
    /\ A2aHandling("task_cancel")
    /\ LET task_id == a2aReq.v.path
       IN  IF task_id \notin DOMAIN a2aTasks
           THEN /\ a2aResp' = Some(A2aReply(404, TASK_NOT_FOUND, NoneV))
                /\ UNCHANGED a2aTasks
           ELSE IF a2aTasks[task_id].status \in TerminalStatuses
           THEN /\ a2aResp' = Some(A2aReply(400, TASK_CANCEL_FAILED, NoneV))
                /\ UNCHANGED a2aTasks
           ELSE LET t == update_status(a2aTasks[task_id], "Canceled")
                IN  /\ a2aResp' = Some(A2aReply(200, 0, Some(TaskStatusMessage(t))))
                    /\ a2aTasks' = [a2aTasks EXCEPT ![task_id] = t]
    /\ UNCHANGED <<a2aConfig, a2aWs, a2aReq, srvVars, cliVars, gwVars, auditVars>>

\* handle_ws_upgrade
A2aWsUpgrade ==
    /\ A2aHandling("ws_upgrade")
    /\ IF authenticate(a2aConfig, a2aReq.v.authorization)
       THEN /\ a2aResp' = Some(A2aReply(101, 0, NoneV))
            /\ a2aWs' = Some(a2aReq.v.authorization)
       ELSE /\ a2aResp' = Some(A2aReply(401, 0, NoneV))
            /\ UNCHANGED a2aWs
    /\ UNCHANGED <<a2aConfig, a2aTasks, a2aReq, srvVars, cliVars, gwVars, auditVars>>

\* handle_websocket: one text message of the loop.
A2aWsMessage ==
    /\ A2aHandling("ws_message")
    /\ LET req == a2aReq.v
       IN  IF ~req.body.json
           THEN \* the message is skipped without an answer
                /\ a2aResp' = Some(A2aReply(0, 0, NoneV))
                /\ UNCHANGED a2aTasks
           ELSE \E uuid \in IF NeedsUuid(req) THEN Uuids \ DOMAIN a2aTasks ELSE Uuids :
                  LET r == handle_method(a2aTasks, req.body, uuid)
                  IN  /\ a2aResp' = Some(A2aReply(0, r.code, r.result))
                      /\ a2aTasks' = r.tasks
    /\ UNCHANGED <<a2aConfig, a2aWs, a2aReq, srvVars, cliVars, gwVars, auditVars>>

\* handle_websocket: a Close message or an error ends the loop.
A2aWsClose ==
    /\ a2aReq = NoneV
    /\ a2aWs.some
    /\ a2aWs' = NoneV
    /\ UNCHANGED <<a2aConfig, a2aTasks, a2aReq, a2aResp, srvVars, cliVars, gwVars,
                   auditVars>>

\* The reply has been sent; the server waits for the next request.
A2aSent ==
    /\ a2aResp.some
    /\ a2aReq' = NoneV
    /\ a2aResp' = NoneV
    /\ UNCHANGED <<a2aConfig, a2aTasks, a2aWs, srvVars, cliVars, gwVars, auditVars>>

A2ANext ==
    \/ A2aReceive
    \/ A2aAgentCard
    \/ A2aRpc
    \/ A2aTaskGet
    \/ A2aTaskCancel
    \/ A2aWsUpgrade
    \/ A2aWsMessage
    \/ A2aWsClose
    \/ A2aSent

SpecA2A == A2AInit /\ [][A2ANext]_vars

----------------------------------------------------------------------------
\* The audit logger (security/audit.rs).

\* The number of calls of AuditLogger::log.
MaxLogs == 3

\* Hashes are sequences of numbers; Genesis stands for the string "genesis".
Genesis == <<0>>

\* HashChainEntry::compute_hash: an HMAC over the event, the previous hash and
\* the index, modelled as the three put together (different inputs give
\* different hashes).
compute_hash(event_json, previous_hash, event_index) ==
    <<event_json, event_index>> \o previous_hash

\* HashChainState::new
HashChainState_new == [last_hash |-> Genesis, event_index |-> 0]

\* HashChainState::advance
advance(st, new_hash) ==
    [last_hash |-> new_hash, event_index |-> st.event_index + 1]

HashChainEntry(previous_hash, current_hash, event_index) ==
    [previous_hash |-> previous_hash, current_hash |-> current_hash,
     event_index |-> event_index]

AuditInit ==
    /\ auditCfg \in [enabled : BOOLEAN, sign_events : BOOLEAN]
    \* AuditLogger::new: a chain state only with sign_events
    /\ hash_chain = IF auditCfg.sign_events THEN Some(HashChainState_new) ELSE NoneV
    /\ auditFile = <<>>
    /\ auditRotated = <<>>
    \* a call of log: where it is, the event with the hash chain entry it was
    \* given, and what the call returned
    /\ auditLogs = [i \in 1..MaxLogs |->
                       [pc |-> "idle", event |-> [event_id |-> i, hash_chain |-> NoneV],
                        result |-> "none"]]
    \* the MCP server before any message
    /\ srvTools = <<>>
    /\ srvStore = <<>>
    /\ srvMsg = Garbage
    /\ srvPhase = "idle"
    /\ srvResp = NoResponse
    /\ srvExec = <<>>
    /\ srvStoreOps = <<>>
    /\ srvMode = "Stdio"
    /\ srvRead = <<>>
    /\ srvWritten = <<>>
    \* the MCP client before any use
    /\ transport_mode = "Http"
    /\ has_target = TRUE
    /\ state = "Disconnected"
    /\ server_capabilities = NoneV
    /\ server_info = NoneV
    /\ request_sender = NoneV
    /\ stdio_process = NoneV
    /\ REQUEST_ID = 1
    /\ children = [g \in 1..MaxSpawn |-> NoChild]
    /\ task = [t \in Tasks |-> IdleTask]
    /\ opsStarted = 0
    \* the gateway before any request
    /\ gwState = [cf_access_enabled |-> FALSE, cf_access_public_key |-> NoneV,
                  cf_access_aud_tag |-> NoneV]
    /\ gwReq = NoneV
    /\ gwResp = "none"
    \* the A2A server before any request
    /\ a2aConfig = [require_authentication |-> TRUE, api_keys |-> {}]
    /\ a2aTasks = <<>>
    /\ a2aWs = NoneV
    /\ a2aReq = NoneV
    /\ a2aResp = NoneV

\* log, up to the hash chain lock: the enabled check, rotate_if_needed (the
\* file has reached max_size_mb or not; the rename succeeds or not) and
\* enforce_retention, which removes nothing while fewer than max_files files
\* exist.
LogBegin(i) ==
    /\ auditLogs[i].pc = "idle"
    /\ IF ~auditCfg.enabled
       THEN /\ auditLogs' = [auditLogs EXCEPT ![i].pc = "done", ![i].result = "ok"]
            /\ UNCHANGED <<auditFile, auditRotated>>
       ELSE \/ /\ auditLogs' = [auditLogs EXCEPT ![i].pc = "chain"]
               /\ UNCHANGED <<auditFile, auditRotated>>
            \/ /\ auditFile # <<>>
               /\ auditRotated' = auditRotated \o auditFile
               /\ auditFile' = <<>>
               /\ auditLogs' = [auditLogs EXCEPT ![i].pc = "chain"]
            \/ /\ auditFile # <<>>
               /\ auditLogs' = [auditLogs EXCEPT ![i].pc = "done", ![i].result = "err"]
               /\ UNCHANGED <<auditFile, auditRotated>>
    /\ UNCHANGED <<auditCfg, hash_chain, srvVars, cliVars, gwVars, a2aVars>>

\* log, under the hash chain lock: the entry is computed and the chain
\* advanced.
LogChain(i) ==
    /\ auditLogs[i].pc = "chain"
    /\ IF hash_chain.some
       THEN LET st == hash_chain.v
                previous_hash == st.last_hash
                event_index == st.event_index
                current_hash == compute_hash(auditLogs[i].event.event_id,
                                             previous_hash, event_index)
            IN  /\ hash_chain' = Some(advance(st, current_hash))
                /\ auditLogs' =
                     [auditLogs EXCEPT
                        ![i].pc = "write",
                        ![i].event.hash_chain =
                            Some(HashChainEntry(previous_hash, current_hash, event_index))]
       ELSE /\ auditLogs' = [auditLogs EXCEPT ![i].pc = "write"]
            /\ UNCHANGED hash_chain
    /\ UNCHANGED <<auditCfg, auditFile, auditRotated, srvVars, cliVars, gwVars,
                   a2aVars>>

\* log, after the lock: write_event appends the line or fails, and
\* export_to_backends has no backend to export to.
LogWrite(i) ==
    /\ auditLogs[i].pc = "write"
    /\ \/ /\ auditFile' = Append(auditFile, auditLogs[i].event)
          /\ auditLogs' = [auditLogs EXCEPT ![i].pc = "done", ![i].result = "ok"]
       \/ /\ auditLogs' = [auditLogs EXCEPT ![i].pc = "done", ![i].result = "err"]
          /\ UNCHANGED auditFile
    /\ UNCHANGED <<auditCfg, hash_chain, auditRotated, srvVars, cliVars, gwVars,
                   a2aVars>>

AuditNext == \E i \in 1..MaxLogs : LogBegin(i) \/ LogChain(i) \/ LogWrite(i)

SpecAudit == AuditInit /\ [][AuditNext]_vars

----------------------------------------------------------------------------
\* Properties of the server's dispatch.

StartsWith(s, p) == Len(s) >= Len(p) /\ \A i \in 1..Len(p) : s[i] = p[i]
RegisteredNames == {srvTools[i] : i \in 1..Len(srvTools)}
IsRequestFor(m, method) == ParseRequest(m).some /\ ParseRequest(m).v.method = method
RespondedWithError(code) ==
    /\ srvResp.error.some
    /\ srvResp.error.v.code = code
    /\ ~srvResp.result.some

\* The case of C4: a tools/call whose params carry an unregistered name and an
\* arguments field.
C4Case ==
    /\ IsRequestFor(srvMsg, "tools/call")
    /\ ~srvMsg.params.absent /\ srvMsg.params.v.t = "obj"
    /\ ~srvMsg.params.v.name.absent /\ srvMsg.params.v.name.v.t = "str"
    /\ srvMsg.params.v.name.v.s \notin RegisteredNames
    /\ ~srvMsg.params.v.arguments.absent

\* C4: a tools/call naming an unregistered tool (with an arguments field) is
\* answered with the ToolNotFound code (-32001) and execute is invoked on no
\* registered tool.
C4_UnregisteredToolNotFound ==
    (srvPhase = "responded" /\ C4Case) =>
        (RespondedWithError(-32001) /\ srvExec = <<>>)

C4_Witness ==
    /\ srvPhase = "responded" /\ C4Case
    /\ Len(srvTools) > 0
    /\ RespondedWithError(TOOL_NOT_FOUND)

\* The case of C5: a resources/read whose params.uri lacks the memory:// prefix.
C5Case ==
    /\ IsRequestFor(srvMsg, "resources/read")
    /\ ~srvMsg.params.absent /\ srvMsg.params.v.t = "obj"
    /\ ~srvMsg.params.v.uri.absent /\ srvMsg.params.v.uri.v.t = "str"
    /\ ~StartsWith(srvMsg.params.v.uri.v.s, MemoryPrefix)

\* C5: handling a resources/read whose uri does not start with memory://
\* yields the ResourceNotFound code (-32002) and leaves the resource store's
\* contents as they were.
C5_UnknownSchemeNotFound ==
    [][(srvPhase = "received" /\ C5Case) =>
          /\ srvResp'.error.some
          /\ srvResp'.error.v.code = -32002
          /\ ~srvResp'.result.some
          /\ srvStore' = srvStore]_vars

C5_Witness ==
    /\ srvPhase = "responded" /\ C5Case
    /\ srvStore # <<>>
    /\ srvMsg.params.v.uri.v.s # <<>>
    /\ RespondedWithError(RESOURCE_NOT_FOUND)

\* The case of C9: params are exactly {"name":"missing"}.
C9Case ==
    /\ IsRequestFor(srvMsg, "tools/call")
    /\ srvMsg.params = Present(JObj(Present(JStr(UnregisteredName)), Absent, Absent))

\* C9: a tools/call with params {"name":"missing"} (no arguments field) is
\* answered with the tool-not-found code (-32001).
C9_MissingNameOnly ==
    (srvPhase = "responded" /\ C9Case) => RespondedWithError(-32001)

\* C11: a tools/list request is answered with a success result holding one
\* ToolDefinition per registered tool, in registry order, each with that
\* tool's name, description and input schema; the registry <<echo>> yields
\* exactly one definition, named echo.
C11_ToolsListEnumeratesRegistry ==
    (srvPhase = "responded" /\ IsRequestFor(srvMsg, "tools/list")) =>
        /\ srvResp.result.some /\ ~srvResp.error.some
        /\ LET defs == srvResp.result.v.tools IN
           /\ Len(defs) = Len(srvTools)
           /\ \A i \in 1..Len(srvTools) :
                 /\ defs[i].name = srvTools[i]
                 /\ defs[i].description = <<"description of ", srvTools[i]>>
                 /\ defs[i].input_schema = <<"schema of ", srvTools[i]>>
           /\ srvTools = <<"echo">> => (Len(defs) = 1 /\ defs[1].name = "echo")

\* C11 case: tools/list answered by a server whose registry holds two
\* different tools.
C11_Witness ==
    /\ srvPhase = "responded" /\ IsRequestFor(srvMsg, "tools/list")
    /\ srvTools = <<"echo", "add">>
    /\ srvResp.result.some /\ Len(srvResp.result.v.tools) = 2

\* The case of C12: a tools/call whose params carry a registered name and an
\* arguments field.
C12Case ==
    /\ IsRequestFor(srvMsg, "tools/call")
    /\ ~srvMsg.params.absent /\ srvMsg.params.v.t = "obj"
    /\ ~srvMsg.params.v.name.absent /\ srvMsg.params.v.name.v.t = "str"
    /\ srvMsg.params.v.name.v.s \in RegisteredNames
    /\ ~srvMsg.params.v.arguments.absent

\* C12: a tools/call naming a registered tool invokes that tool, once, with
\* params.arguments; when the tool reports success the response is a success
\* whose content is one text block holding the tool's output and whose
\* is_error is not set; when the tool reports failure the response is a
\* success whose content is one text block and whose is_error is true.
C12_ToolOutcomeWrapped ==
    (srvPhase = "responded" /\ C12Case) =>
        /\ Len(srvExec) = 1
        /\ srvExec[1].tool \in 1..Len(srvTools)
        /\ srvTools[srvExec[1].tool] = srvMsg.params.v.name.v.s
        /\ srvExec[1].arguments = srvMsg.params.v.arguments.v
        /\ LET returned == srvExec[1].returned IN
           /\ (returned.kind = "ok" /\ returned.success) =>
                 /\ srvResp.result.some /\ ~srvResp.error.some
                 /\ srvResp.result.v.content = <<[type |-> "Text", text |-> returned.output]>>
                 /\ ~srvResp.result.v.is_error.some
           /\ (returned.kind = "ok" /\ ~returned.success) =>
                 /\ srvResp.result.some /\ ~srvResp.error.some
                 /\ Len(srvResp.result.v.content) = 1
                 /\ srvResp.result.v.content[1].type = "Text"
                 /\ srvResp.result.v.is_error = Some(TRUE)

\* C12 case: echo, the second tool of the registry, was called with
\* {"text":"hi"} and reported failure.
C12_Witness ==
    /\ srvPhase = "responded" /\ C12Case
    /\ srvTools = <<"add", "echo">>
    /\ srvMsg.params.v.name.v.s = "echo"
    /\ srvMsg.params.v.arguments.v = ArgsHi
    /\ Len(srvExec) = 1 /\ srvExec[1].tool = 2
    /\ srvExec[1].returned.kind = "ok" /\ ~srvExec[1].returned.success
    /\ srvResp.result.some /\ srvResp.result.v.is_error = Some(TRUE)

\* A notification: a well-formed envelope with a jsonrpc version and a method
\* and no id.
IsNotification(m) ==
    /\ m.wellformed
    /\ ~m.jsonrpc.absent /\ m.jsonrpc.v.t = "str"
    /\ ~m.method.absent /\ m.method.v.t = "str"
    /\ m.id.absent

\* The responses the server has produced for the message it is handling.
ResponsesProduced == IF srvPhase = "responded" THEN 1 ELSE 0

\* C18: the server produces one response for a request and no response for a
\* notification.
C18_NoResponseToNotification ==
    /\ (srvPhase = "responded" /\ ParseRequest(srvMsg).some) => ResponsesProduced = 1
    /\ IsNotification(srvMsg) => ResponsesProduced = 0

\* C19: the response to a decodable request carries that request's id, for
\* every method and every outcome of its handler.
C19_ResponseIdEqualsRequestId ==
    (srvPhase = "responded" /\ ParseRequest(srvMsg).some) =>
        srvResp.id = ParseRequest(srvMsg).v.id

\* C19 case: a request with a string id was answered with an error.
C19_Witness ==
    /\ srvPhase = "responded" /\ ParseRequest(srvMsg).some
    /\ ParseRequest(srvMsg).v.id = JStr("a")
    /\ srvResp.error.some /\ srvResp.id = JStr("a")

\* C20: every response the server produces has exactly one of result and
\* error.
C20_ExactlyOneOfResultAndError ==
    srvPhase = "responded" => (srvResp.result.some # srvResp.error.some)

\* C20 case: a success response to resources/read, and (in another
\* behaviour) the error response to an undecodable message.
C20_Witness ==
    /\ srvPhase = "responded"
    /\ \/ IsRequestFor(srvMsg, "resources/read") /\ srvResp.result.some /\ ~srvResp.error.some
       \/ srvMsg = Garbage /\ srvResp.error.some /\ ~srvResp.result.some

\* The methods handle_message_static routes to a handler.
RoutedMethods ==
    {"initialize", "tools/list", "tools/call", "resources/list", "resources/read"}

\* The case of C21: an envelope with a jsonrpc version, an id and a method
\* that is none of the routed ones.
C21Case ==
    /\ srvMsg.wellformed
    /\ ~srvMsg.jsonrpc.absent /\ srvMsg.jsonrpc.v.t = "str"
    /\ ~srvMsg.id.absent
    /\ ~srvMsg.method.absent /\ srvMsg.method.v.t = "str"
    /\ srvMsg.method.v.s \notin RoutedMethods

\* C21: a well-formed request with an unknown method is answered with the
\* MethodNotFound code (-32601) and the request's id, never with a parse
\* error, and no tool is executed and no store call is made.
C21_UnknownMethodNotFound ==
    (srvPhase = "responded" /\ C21Case) =>
        /\ RespondedWithError(-32601)
        /\ srvResp.error.v.code # -32700
        /\ srvResp.id = srvMsg.id.v
        /\ srvExec = <<>> /\ srvStoreOps = <<>>

\* C21 case: ping with id 1 and an object for params, on a server that has
\* tools and stored entries.
C21_Witness ==
    /\ srvPhase = "responded" /\ C21Case
    /\ srvMsg.method.v.s = "ping" /\ srvMsg.id.v = JNum(1)
    /\ ~srvMsg.params.absent /\ srvMsg.params.v.t = "obj"
    /\ srvTools # <<>> /\ srvStore # <<>>
    /\ RespondedWithError(METHOD_NOT_FOUND)

\* The case of C22: the message is not JSON, or its envelope lacks a string
\* jsonrpc or a string method.
C22Case ==
    \/ ~srvMsg.wellformed
    \/ srvMsg.jsonrpc.absent \/ srvMsg.jsonrpc.v.t # "str"
    \/ srvMsg.method.absent \/ srvMsg.method.v.t # "str"

\* C22: a malformed envelope is answered with the ParseError code (-32700),
\* and when the request id cannot be determined (the message is not JSON, or
\* it has no id member) the response's id is null.
C22_MalformedEnvelopeParseError ==
    (srvPhase = "responded" /\ C22Case) =>
        /\ RespondedWithError(-32700)
        /\ (~srvMsg.wellformed \/ srvMsg.id.absent) => srvResp.id = JNull

\* C22 case: a line that is not JSON, answered with a null id.
C22_Witness ==
    /\ srvPhase = "responded"
    /\ ~srvMsg.wellformed
    /\ RespondedWithError(PARSE_ERROR) /\ srvResp.id = JNull

\* The case of C23: a tools/call or resources/read with no params (absent or
\* null), or with params that are not an object, or that lack a string name
\* or an arguments field (tools/call), or a string uri (resources/read).
C23Case ==
    /\ \/ IsRequestFor(srvMsg, "tools/call")
       \/ IsRequestFor(srvMsg, "resources/read")
    /\ \/ srvMsg.params.absent
       \/ srvMsg.params.v.t # "obj"
       \/ /\ srvMsg.method.v.s = "tools/call"
          /\ \/ srvMsg.params.v.name.absent
             \/ srvMsg.params.v.name.v.t # "str"
             \/ srvMsg.params.v.arguments.absent
       \/ /\ srvMsg.method.v.s = "resources/read"
          /\ \/ srvMsg.params.v.uri.absent
             \/ srvMsg.params.v.uri.v.t # "str"

\* C23: a tools/call or resources/read with missing or undecodable params is
\* answered with the InvalidParams code (-32602); no tool is executed and no
\* store call is made.
C23_BadParamsInvalidParams ==
    (srvPhase = "responded" /\ C23Case) =>
        (RespondedWithError(-32602) /\ srvExec = <<>> /\ srvStoreOps = <<>>)

\* C23 case: a tools/call naming a registered tool without an arguments field.
C23_Witness ==
    /\ srvPhase = "responded" /\ C23Case
    /\ srvMsg.method.v.s = "tools/call"
    /\ ~srvMsg.params.absent /\ srvMsg.params.v.t = "obj"
    /\ ~srvMsg.params.v.name.absent /\ srvMsg.params.v.name.v.t = "str"
    /\ srvMsg.params.v.name.v.s \in RegisteredNames
    /\ srvMsg.params.v.arguments.absent
    /\ RespondedWithError(INVALID_PARAMS)

\* The case of C24: a resources/read whose uri starts with memory://, and
\* the store's get did not fail.
C24Case ==
    /\ IsRequestFor(srvMsg, "resources/read")
    /\ ~srvMsg.params.absent /\ srvMsg.params.v.t = "obj"
    /\ ~srvMsg.params.v.uri.absent /\ srvMsg.params.v.uri.v.t = "str"
    /\ StartsWith(srvMsg.params.v.uri.v.s, MemoryPrefix)
    /\ \A i \in 1..Len(srvStoreOps) : ~srvStoreOps[i].failed

\* The key K of a uri memory://K.
KeyOf(uri) == SubSeq(uri, Len(MemoryPrefix) + 1, Len(uri))

\* C24: a resources/read for memory://K returns a success with one content
\* entry holding the stored text and the requested uri when the store has K,
\* and the ResourceNotFound code (-32002) when it has not.
C24_ReadByKey ==
    (srvPhase = "responded" /\ C24Case) =>
        LET uri == srvMsg.params.v.uri.v.s
            K == KeyOf(uri)
        IN  /\ K \in DOMAIN srvStore =>
                  /\ srvResp.result.some /\ ~srvResp.error.some
                  /\ Len(srvResp.result.v.contents) = 1
                  /\ srvResp.result.v.contents[1].uri = uri
                  /\ srvResp.result.v.contents[1].text = Some(srvStore[K])
            /\ K \notin DOMAIN srvStore => RespondedWithError(-32002)

\* C24 case: memory://b read from a store that holds a and b.
C24_Witness ==
    /\ srvPhase = "responded" /\ C24Case
    /\ srvMsg.params.v.uri.v.s = Chars(KeyB)
    /\ KeyA \in DOMAIN srvStore /\ KeyB \in DOMAIN srvStore
    /\ srvResp.result.some
    /\ srvResp.result.v.contents[1].text = Some("content of b")

\* The numbers of the inputs read that are requests.
RequestsRead == {k \in 1..Len(srvRead) : srvRead[k] = "request"}

\* The numbers of the requests whose handling is over: all that were read,
\* but the last input while it is still being handled.
RequestsOver ==
    IF srvPhase \in {"received", "responded"} THEN RequestsRead \ {Len(srvRead)}
    ELSE RequestsRead

\* C27: in network mode, every connection on which a request was read and
\* which is closed had the response to that request written to it.
C27_HttpResponseWritten ==
    srvMode = "Http" =>
        \A k \in RequestsOver : \E i \in 1..Len(srvWritten) : srvWritten[i] = k

\* C29: in subprocess mode the responses are written in the order the
\* request lines were read, only for lines whose handling is over, and when a
\* line is dispatched the response to every request line before it has been
\* written.
C29_StdioOneAtATime ==
    srvMode = "Stdio" =>
        /\ \A i, j \in 1..Len(srvWritten) : i < j => srvWritten[i] < srvWritten[j]
        /\ {srvWritten[i] : i \in 1..Len(srvWritten)} \subseteq RequestsOver
        /\ srvPhase # "stopped" =>
               RequestsOver \subseteq {srvWritten[i] : i \in 1..Len(srvWritten)}

\* C29 case: the second request line is being handled, after the response to
\* the first was written.
C29_Witness ==
    /\ srvMode = "Stdio"
    /\ srvRead = <<"request", "request">>
    /\ srvPhase = "responded"
    /\ srvWritten = <<1>>

----------------------------------------------------------------------------
\* Properties of the client.

\* The program counters of a call that is inside connect.
ConnectPcs ==
    {"c_connecting", "cs_spawn", "cs_process", "i_next_id", "i_send", "i_recv",
     "i_store", "i_notify", "c_result"}

\* The request of call t is queued for child g and has not been written to it.
QueuedOn(t, g) ==
    /\ task[t].reqId # 0
    /\ \E i \in 1..Len(children[g].chan) : children[g].chan[i].id = task[t].reqId

\* The request of call t has been handed to child g and no response line for
\* it has been read from the child.
InFlightOn(t, g) ==
    \/ QueuedOn(t, g)
    \/ /\ task[t].reqId # 0
       /\ \E i \in 1..Len(children[g].stdin) : children[g].stdin[i].id = task[t].reqId

C2_StdioResponseIsServers ==
    \A t \in Tasks :
        (transport_mode = "Stdio" /\ task[t].resp.some) =>
            /\ \A g \in 1..MaxSpawn : ~InFlightOn(t, g)
            /\ task[t].resp.v.body # "status_sent"

\* A response line is read from child g in this step.
LineRead(g) == Len(children'[g].stdin) < Len(children[g].stdin)

\* The calls that are handed a response in this step.
Delivered == {t \in Tasks : task'[t].resp # task[t].resp /\ task'[t].resp.some}

\* C3: every response line read from the child is delivered to exactly one
\* waiting caller.
C3_LineDeliveredToOneWaiter ==
    [][\A g \in 1..MaxSpawn : LineRead(g) => Cardinality(Delivered) = 1]_vars

\* C6: a reconnect whose attempts all fail makes exactly max_retries connect
\* attempts and returns the terminal error naming that count; no reconnect
\* ever makes more attempts than that.
C6_ExactlyMaxRetriesAttempts ==
    \A t \in Tasks :
        /\ task[t].attempts <= MaxRetries
        /\ (task[t].op = "reconnect" /\ task[t].pc = "done" /\ task[t].result.kind = "err")
              => /\ task[t].attempts = MaxRetries
                 /\ task[t].result.count = MaxRetries
                 /\ task[t].result.why =
                        "Failed to reconnect to MCP server after {} attempts"
        /\ (task[t].pc = "done" /\ task[t].result.count # 0)
              => /\ task[t].attempts = MaxRetries
                 /\ task[t].result.count = MaxRetries

\* C6 case: a reconnect has returned the terminal error.
C6_Witness ==
    \E t \in Tasks :
        /\ task[t].op = "reconnect" /\ task[t].pc = "done"
        /\ task[t].result.kind = "err" /\ task[t].result.count = MaxRetries
        /\ task[t].attempts = MaxRetries

\* C7: within one reconnect the first delay slept is the base delay, every
\* delay is at least the base delay, and each delay is twice the one before
\* it (so none is smaller than the one before it).
C7_DelaysDoubleFromBase ==
    \A t \in Tasks :
        LET s == task[t].sleeps IN
        /\ Len(s) >= 1 => s[1] = BaseDelayMs
        /\ \A k \in 1..Len(s) :
              /\ s[k] >= BaseDelayMs
              /\ k > 1 => (s[k] = 2 * s[k - 1] /\ s[k] >= s[k - 1])

\* C7 case: a reconnect has slept after each of its failed attempts.
C7_Witness ==
    \E t \in Tasks :
        /\ Len(task[t].sleeps) = MaxRetries
        /\ task[t].sleeps[MaxRetries] = 16 * BaseDelayMs

\* C8: connect called while the state is Connected returns Ok at once: the
\* call enters no part of the handshake, takes no request id, queues no
\* message, spawns no process and leaves the state, the capabilities and the
\* server info as they were.
C8_ConnectWhenConnectedIsNoOp ==
    [][\A t \in Tasks :
          (task[t].pc = "c_check" /\ state = "Connected" /\ task'[t] # task[t]) =>
              /\ task'[t].pc \notin ConnectPcs
              /\ task'[t].reqId = task[t].reqId
              /\ task[t].op = "connect" => (task'[t].pc = "done" /\ task'[t].result = Ok)
              /\ UNCHANGED <<state, server_capabilities, server_info, request_sender,
                             stdio_process, REQUEST_ID, children>>]_vars

\* C8 case: a connect has returned Ok without having sent any request, on a
\* client that is Connected.
C8_Witness ==
    \E t \in Tasks :
        /\ task[t].op = "connect" /\ task[t].pc = "done" /\ task[t].result = Ok
        /\ task[t].reqId = 0
        /\ state = "Connected"

\* An error that reports the transport as closed.
TransportClosed(res) == res.kind = "err" /\ res.why = "channel closed"

\* C10: in Stdio mode, once the child has exited, a request that was queued
\* for it and never written has resolved with a transport-closed error, and
\* the state is Disconnected.
C10_InFlightFailsTransportClosed ==
    \A t \in Tasks, g \in 1..MaxSpawn :
        (/\ transport_mode = "Stdio"
         /\ children[g] # NoChild /\ ~children[g].alive
         /\ QueuedOn(t, g)
         /\ task[t].pc = "done")
            => TransportClosed(task[t].result) /\ state = "Disconnected"

\* The server's answer to the initialize request of call t was a successful
\* initialize result: in Http mode it is the body the call received; in Stdio
\* mode the request was written to the call's child, is no longer awaiting a
\* line, and the reader has stored the capabilities of an initialize result.
InitializeAnswered(t) ==
    /\ task[t].method = "initialize" /\ task[t].reqId # 0 /\ task[t].resp.some
    /\ IF transport_mode = "Http"
       THEN task[t].resp.v.kind = "result" /\ ResultDecodes(task[t].resp.v, "initialize")
       ELSE /\ task[t].child # 0
            /\ ~InFlightOn(t, task[t].child)
            /\ server_capabilities.some

\* C13: under either transport, when the server has answered the initialize
\* request with a successful initialize result, connect returns success and
\* sets the state to Connected.
C13_InitializeSuccessConnects ==
    [][\A t \in Tasks :
          (task[t].pc = "c_result" /\ task'[t] # task[t] /\ InitializeAnswered(t)) =>
              (task[t].cres = Ok /\ state' = "Connected")]_vars

\* C14: when the response to the initialize request carries an error object
\* (in Stdio mode: whatever line the child answers with), connect returns an
\* error and the state is Disconnected as it returns.
C14_InitializeErrorAborts ==
    [][\A t \in Tasks :
          (/\ task[t].pc = "c_result" /\ task'[t] # task[t]
           /\ task[t].method = "initialize" /\ task[t].resp.some
           /\ (task[t].resp.v.kind = "error" \/ transport_mode = "Stdio")) =>
              /\ task[t].cres.kind = "err"
              /\ state' = "Disconnected"
              /\ task[t].op = "connect" =>
                    (task'[t].pc = "done" /\ task'[t].result.kind = "err")]_vars

\* C14 case: a connect has returned the error of an initialize response that
\* carried an error object, and the state is Disconnected.
C14_Witness ==
    \E t \in Tasks :
        /\ task[t].op = "connect" /\ task[t].pc = "done"
        /\ task[t].resp.some /\ task[t].resp.v.kind = "error"
        /\ task[t].result = Err("MCP initialization failed")
        /\ state = "Disconnected"

\* The transitions of the connection state the lifecycle allows.
AllowedTransitions ==
    { <<"Disconnected", "Connecting">>, <<"Connecting", "Connected">>,
      <<"Connecting", "Disconnected">>, <<"Connected", "Disconnected">> }

\* C15: the connection state changes only along Disconnected -> Connecting,
\* Connecting -> Connected, Connecting -> Disconnected and
\* Connected -> Disconnected.
C15_OnlyLifecycleTransitions ==
    [][state' # state => <<state, state'>> \in AllowedTransitions]_vars

\* Call t hands its request to the transport in this step.
SendsRequest(t) ==
    /\ task[t].pc = "q_send" /\ task'[t] # task[t]
    /\ \/ task'[t].pc = "q_recv"
       \/ \E g \in 1..MaxSpawn : Len(children'[g].chan) > Len(children[g].chan)

\* C16: list_tools, call_tool, list_resources and read_resource send their
\* request only while the connection state is Connected.
C16_SendsOnlyWhenConnected ==
    [][\A t \in Tasks : SendsRequest(t) => state = "Connected"]_vars

\* C17: whenever the connection state is Disconnected the stored server
\* capabilities and server info are absent. The states in which a call is
\* part-way through its steps are left out, so that the time between
\* disconnect's write of the state and its clearing of the two fields does
\* not count.
C17_DisconnectedHoldsNoCapabilities ==
    (state = "Disconnected" /\ \A t \in Tasks : task[t].pc \in {"idle", "done"}) =>
        (~server_capabilities.some /\ ~server_info.some)

\* The operations that send one request and return what the response holds.
QueryOps == {"list_tools", "call_tool", "list_resources", "read_resource"}

\* The errors of send_request that come from the transport itself.
TransportErrors == {"error sending request", "channel closed"}

\* C25: an operation whose request fails with a transport error does not
\* return that error at once (it runs the reconnect policy first), and an
\* operation whose response carries an error object returns at once, with no
\* reconnect and no further request.
C25_TransportErrorRunsReconnect ==
    [][\A t \in Tasks :
          /\ (/\ task[t].pc \in {"q_send", "q_recv"}
              /\ task'[t].pc = "done"
              /\ task'[t].result.kind = "err")
                 => task'[t].result.why \notin TransportErrors
          /\ (/\ task[t].pc \in {"q_send", "q_recv"}
              /\ task'[t].resp.some /\ task'[t].resp.v.kind = "error")
                 => /\ task'[t].pc = "done" /\ task'[t].result.kind = "err"
                    /\ task'[t].attempts = task[t].attempts
                    /\ REQUEST_ID' = REQUEST_ID]_vars

\* C26: when the response to list_tools, call_tool, list_resources or
\* read_resource carries an error object, the failure the caller gets holds
\* the server's code and the server's message, and is none of the transport
\* errors.
C26_FailureCarriesCodeAndMessage ==
    \A t \in Tasks :
        (/\ task[t].pc = "done" /\ task[t].op \in QueryOps
         /\ task[t].resp.some /\ task[t].resp.v.kind = "error")
            => /\ task[t].result.kind = "err"
               /\ task[t].result.why \notin TransportErrors
               /\ task[t].result.message = Some(task[t].resp.v.error.v.message)
               /\ task[t].result.code = Some(task[t].resp.v.error.v.code)

\* C28: a caller that waits for the response to its request stops waiting
\* in the end, whether or not a response arrives (a timeout bounds the wait).
C28_WaitForResponseEnds ==
    \A t \in Tasks :
        (task[t].pc \in {"i_recv", "q_recv"}) ~> (task[t].pc \notin {"i_recv", "q_recv"})

\* The ids held by the requests in flight: by the callers, in the channels
\* and in the children's stdin.
HeldIds ==
    {task[t].reqId : t \in Tasks}
        \cup UNION {{children[g].chan[i].id : i \in 1..Len(children[g].chan)}
                        \cup {children[g].stdin[i].id : i \in 1..Len(children[g].stdin)}
                    : g \in 1..MaxSpawn}

\* C30: ids are issued in strictly increasing order and no two requests get
\* the same id: each id issued is the counter's value, larger than every id
\* issued before it, the counter then stands above it, and two callers never
\* hold the same id.
C30_IdsStrictlyIncreasingAndUnique ==
    /\ [](\A t, u \in Tasks :
             (t # u /\ task[t].reqId # 0) => task[t].reqId # task[u].reqId)
    /\ [](\A i \in HeldIds : i < REQUEST_ID)
    /\ [][/\ REQUEST_ID' >= REQUEST_ID
          /\ \A t \in Tasks :
                (task'[t].reqId # task[t].reqId /\ task'[t].reqId # 0)
                   => /\ task'[t].reqId = REQUEST_ID
                      /\ REQUEST_ID' = REQUEST_ID + 1
                      /\ \A i \in HeldIds : i < task'[t].reqId]_vars

\* C30 case: two callers hold requests at once, with ids 1 and 2.
C30_Witness ==
    /\ task[1].reqId = 1 /\ task[2].reqId = 2
    /\ task[1].pc \in {"q_send", "q_recv", "i_send", "i_recv"}
    /\ task[2].pc \in {"q_send", "q_recv", "i_send", "i_recv"}
    /\ REQUEST_ID = 3

\* C31: for each child, messages enter the outgoing queue at its end, and
\* each write to the child's input is of the whole message at the head of the
\* queue: the messages reach the child in the order they were queued, one
\* after the other.
C31_WritesInSubmissionOrder ==
    [][\A g \in 1..MaxSpawn :
          /\ Len(children'[g].chan) > Len(children[g].chan) =>
                \E x \in {children'[g].chan[Len(children'[g].chan)]} :
                    children'[g].chan = Append(children[g].chan, x)
          /\ Len(children'[g].chan) < Len(children[g].chan) =>
                children'[g].chan = Tail(children[g].chan)
          /\ Len(children'[g].stdin) > Len(children[g].stdin) =>
                /\ children[g].chan # <<>>
                /\ children'[g].stdin = Append(children[g].stdin, Head(children[g].chan))
                /\ children'[g].chan = Tail(children[g].chan)]_vars

\* C31 case: two callers queued their requests one after the other before the
\* writer ran, and the child's input holds them in that order.
C31_Witness ==
    /\ children[1].chan = <<>>
    /\ Len(children[1].stdin) = 2
    /\ children[1].stdin[1].id = 1 /\ children[1].stdin[2].id = 2
    /\ task[1].reqId = 1 /\ task[2].reqId = 2

\* C32: when disconnect kills the child, the outgoing queue of that child is
\* empty: every message accepted into it has been written.
C32_QueueDrainedBeforeKill ==
    [][\A t \in Tasks :
          (/\ task[t].pc = "d_process" /\ task'[t].pc = "done"
           /\ stdio_process.some)
              => children[stdio_process.v].chan = <<>>]_vars

\* C33: after a successful initialize response the initialized notification
\* is sent only once the capabilities are stored and the state is Connected.
C33_NotifyAfterConnected ==
    [][\A t \in Tasks :
          (/\ task[t].pc = "i_notify" /\ task'[t] # task[t]
           /\ task[t].resp.some /\ task[t].resp.v.kind = "result")
              => (server_capabilities.some /\ state = "Connected")]_vars

\* The calls made are connect, reconnect and disconnect, and every response
\* a call holds is a well-shaped initialize result.
OnlyLifecycleCalls ==
    \A t \in Tasks :
        /\ task[t].op \in {"none", "connect", "reconnect", "disconnect"}
        /\ task[t].resp.some =>
              (task[t].resp.v.kind = "result" /\ ResultDecodes(task[t].resp.v, "initialize"))

\* C35: whenever the state is Connected the stored capabilities and server
\* info are present, under every interleaving of connect, reconnect and
\* disconnect calls whose initialize requests the peer answers well.
C35_ConnectedHoldsCapabilities ==
    (state = "Connected" /\ OnlyLifecycleCalls) =>
        (server_capabilities.some /\ server_info.some)

\* C36: once no call is part-way through, the only child running is the one
\* the client holds in stdio_process, and the child spawned by a connect
\* that returned an error is not running.
C36_NoStrayChild ==
    (\A t \in Tasks : task[t].pc \in {"idle", "done"}) =>
        /\ \A g \in 1..MaxSpawn :
              children[g].alive => stdio_process = Some(g)
        /\ \A t \in Tasks :
              (task[t].pc = "done" /\ task[t].result.kind = "err" /\ task[t].child # 0)
                  => ~children[task[t].child].alive

\* Call t is a connect that has built its initialize request and has not
\* returned.
InHandshake(t) ==
    /\ task[t].op = "connect"
    /\ task[t].method = "initialize" /\ task[t].reqId # 0
    /\ task[t].pc \in {"i_send", "i_recv", "i_store", "i_notify", "c_result"}

\* C37: two connect calls are never both inside the initialize handshake.
C37_OneHandshake ==
    \A t, u \in Tasks : (t # u /\ InHandshake(t)) => ~InHandshake(u)

\* The token the request carries validates as Authenticated against the
\* gateway's configured key and audience tag.
CarriesAuthenticatedJwt ==
    /\ gwReq.some
    /\ gwState.cf_access_public_key.some
    /\ extract_cloudflare_jwt(gwReq.v).some
    /\ validate_cloudflare_token(extract_cloudflare_jwt(gwReq.v).v,
                                 gwState.cf_access_public_key.v,
                                 gwState.cf_access_aud_tag) = "Authenticated"

\* C34: with Cloudflare Access enabled, an upgrade is accepted only for a
\* request that carries a JWT validating as Authenticated; every other
\* request is rejected as unauthorized, whatever the rest of the
\* configuration.
C34_UpgradeOnlyWithValidJwt ==
    (gwState.cf_access_enabled /\ gwResp # "none") =>
        /\ gwResp = "upgrade" => CarriesAuthenticatedJwt
        /\ ~CarriesAuthenticatedJwt => gwResp = "unauthorized"

\* The task a cancel request names: the path of POST /tasks/:id/cancel, or the
\* "id" of a tasks/cancel call.
CancelTarget(req) ==
    IF req.route = "task_cancel" THEN Some(req.path)
    ELSE IF /\ req.route \in {"rpc", "ws_message"}
            /\ req.body.json
            /\ req.body.method = "tasks/cancel"
            /\ req.body.params.some
    THEN req.body.params.v.id
    ELSE NoneV

\* The request being answered reaches the method handlers.
ReachesHandler(req) ==
    \/ req.route \in {"task_cancel", "task_get", "ws_message"}
    \/ req.route = "rpc" /\ authenticate(a2aConfig, req.authorization)

\* C38: once a task is Completed, Failed or Canceled, no request changes its
\* status or its transition history, and a cancel of it is answered with the
\* task-cancel-failed error.
C38_TerminalTaskFrozen ==
    [][\A id \in DOMAIN a2aTasks :
          a2aTasks[id].status \in TerminalStatuses =>
            /\ id \in DOMAIN a2aTasks'
            /\ a2aTasks'[id].status = a2aTasks[id].status
            /\ a2aTasks'[id].history = a2aTasks[id].history
            /\ (/\ a2aReq.some /\ ~a2aResp.some /\ a2aResp'.some
                /\ ReachesHandler(a2aReq.v)
                /\ CancelTarget(a2aReq.v) = Some(id))
                 => a2aResp'.v.code = TASK_CANCEL_FAILED]_vars

\* A cancel of a finished task is answered with the task-cancel-failed error
\* (the part of C38 about cancel alone).
CancelOfFinishedRejected ==
    [][\A id \in DOMAIN a2aTasks :
          (/\ a2aTasks[id].status \in TerminalStatuses
           /\ a2aReq.some /\ ~a2aResp.some /\ a2aResp'.some
           /\ ReachesHandler(a2aReq.v)
           /\ CancelTarget(a2aReq.v) = Some(id))
            => (a2aResp'.v.code = TASK_CANCEL_FAILED /\ a2aTasks' = a2aTasks)]_vars

\* The request's Authorization header is "Bearer <key>" or "ApiKey <key>" for
\* one of the configured keys.
PresentsKey(req) ==
    /\ req.authorization.some
    /\ req.authorization.v.ascii
    /\ \E k \in a2aConfig.api_keys :
          req.authorization.v.text \in {BearerPrefix \o k, ApiKeyPrefix \o k}

\* The reply discloses a task's state.
ReadsTaskState(reply) ==
    reply.some /\ reply.v.result.some /\ reply.v.result.v.kind = "status"

\* C40: with require_authentication, a request that presents none of the
\* configured keys creates no task, changes no task's status and reads no
\* task's state, on any route.
C40_NoKeyNoTaskAccess ==
    [][(/\ a2aConfig.require_authentication
        /\ a2aReq.some
        /\ ~PresentsKey(a2aReq.v))
         => (a2aTasks' = a2aTasks /\ ~ReadsTaskState(a2aResp'))]_vars

\* The same for the routes that call authenticate: JSON-RPC over POST / and
\* the WebSocket.
NoKeyNoTaskAccessOnRpc ==
    [][(/\ a2aConfig.require_authentication
        /\ a2aReq.some
        /\ a2aReq.v.route \in {"rpc", "ws_upgrade", "ws_message", "agent_card"}
        /\ ~PresentsKey(a2aReq.v))
         => (a2aTasks' = a2aTasks /\ ~ReadsTaskState(a2aResp'))]_vars

\* The entries written so far, in file order, with what rotation moved aside
\* before the current file.
AuditEntries == auditRotated \o auditFile

\* The entries form an unbroken chain from "genesis" and index 0.
UnbrokenChain(entries) ==
    \A k \in 1..Len(entries) :
        /\ entries[k].hash_chain.some
        /\ LET e == entries[k].hash_chain.v
           IN  IF k = 1
               THEN e.previous_hash = Genesis /\ e.event_index = 0
               ELSE LET before == entries[k - 1].hash_chain.v
                    IN  /\ e.event_index = before.event_index + 1
                        /\ e.previous_hash = before.current_hash

\* C39: with event signing enabled, the entries of the audit log, read in file
\* order, form an unbroken hash chain, also under concurrent calls of log and
\* when a write fails.
C39_LogIsUnbrokenChain ==
    auditCfg.sign_events => UnbrokenChain(AuditEntries)

\* The calls that were given a chain entry.
Chained == {i \in 1..MaxLogs : auditLogs[i].event.hash_chain.some}

\* The entries handed out under the lock form a chain: the indexes are
\* 0, 1, 2, ... without a repeat, and each entry's previous_hash is the
\* current_hash of the entry one index below it.
ChainUnderLock ==
    \A i \in Chained :
        LET e == auditLogs[i].event.hash_chain.v
        IN  /\ e.event_index < Cardinality(Chained)
            /\ \A j \in Chained \ {i} :
                  auditLogs[j].event.hash_chain.v.event_index # e.event_index
            /\ e.event_index = 0 => e.previous_hash = Genesis
            /\ \A j \in Chained :
                  auditLogs[j].event.hash_chain.v.event_index + 1 = e.event_index
                    => e.previous_hash = auditLogs[j].event.hash_chain.v.current_hash

=============================================================================
